---- MODULE Spec2Model ----
(***************************************************************************)
(* Playback controller of src/src/App.tsx: the two bar players (single     *)
(* chord, sequence of bars), their interval timers, the asynchronous start *)
(* handlers, the stop handlers and the tempo/pattern restart effects.      *)
(*                                                                         *)
(* Every function of the component is re-created on each render, so a      *)
(* timer callback and a start handler that is suspended at an await keep   *)
(* the values (pattern, tempo, loop flag, sequence) of the render that     *)
(* created them.  A timer is therefore modelled as a closure record and a  *)
(* suspended start handler as a request record carrying those values.      *)
(***************************************************************************)
EXTENDS Integers, Sequences, FiniteSets, TLC

\* ---------------------------------------------------------------- bounds
MaxSeqLen == 4
MaxPending == 2
\* largest variant index a voicing is looked up with (a chord has 1 to 5)
MaxVarIdx == 6

\* ------------------------------------------------------- inputs (small sets)
BPMs == {92, 120}
ChordInputs == {"G"}
\* chords and voicings chosen in the selects of the single panel
SingleChordInputs == {"C", "G"}
SingleVariantInputs == {0, 1}
\* the state of an AudioContext when it is constructed: the platform's choice
CtxStates == {"running", "suspended"}
\* instruments chosen in the instrument select
InstrumentInputs == {"acoustic_guitar_nylon", "acoustic_guitar_steel"}
\* bass patterns chosen in the bass pattern select: the default and one with
\* rests
BassPatternInputs == {"root-fifth", "swing"}
\* voicings chosen in the variant select of a bar (0-based)
VariantInputs == {1, 4}
\* tonics chosen in the key select: a natural and a sharp one besides C
TonicInputs == {<<"C">>, <<"D">>, <<"F","#">>}
\* drum patterns chosen in the pattern select: the default, one with the kick
\* at slots 0 and 8 only, one with a kick at an odd slot
DrumInputs == {"rock", "ballad", "waltz"}
\* the bars edited in place and the alternative buttons pressed
EditInputs(seq) == {1, Len(seq)}
AlternativeInputs == {1, 2}
\* the presets chosen in the progression select: the initial one, one of
\* three bars and the one of seven bars
ProgressionInputs == {"I-V-vi-IV", "ii-V-I", "I-ii-iii-IV-V-vi-vii"}
\* the bars whose "-" button is pressed: every bar of the list has one
RemoveInputs(seq) == 1..Len(seq)

\* ------------------------------------------------------------- static data
\* the names every object inherits from Object.prototype: the tables CHORDS,
\* PROGRESSIONS and DRUM_PATTERNS are plain objects, so table[name] is truthy
\* for these names as well as for the table's own keys
OBJECT_PROTOTYPE_KEYS ==
  {"constructor", "hasOwnProperty", "isPrototypeOf", "propertyIsEnumerable",
   "toLocaleString", "toString", "valueOf", "__defineGetter__",
   "__defineSetter__", "__lookupGetter__", "__lookupSetter__", "__proto__"}

\* table[name] is truthy
Truthy(table, name) == name \in DOMAIN table \cup OBJECT_PROTOTYPE_KEYS

\* the outcome of a call that throws a TypeError: reading a property of the
\* undefined field of an inherited value (prog.degrees, drumPat.kick)
TypeError == << <<"TypeError">> >>

X == -1

TUNING_MIDI == <<40, 45, 50, 55, 59, 64>>

PATTERNS ==
  [ down8  |-> [steps |-> <<"D","D","D","D","D","D","D","D">>, accents |-> {0,4}],
    folk1  |-> [steps |-> <<"D","-","D","U","-","U","D","U">>, accents |-> {0,2,6}],
    pop1   |-> [steps |-> <<"D","-","U","U","-","U","-","U">>, accents |-> {0,2,5}],
    rock1  |-> [steps |-> <<"D","D","U","-","U","D","U","-">>, accents |-> {0,1,5}],
    reggae |-> [steps |-> <<"-","U","-","U","-","U","-","U">>, accents |-> {1,3,5,7}],
    bossa  |-> [steps |-> <<"D","-","D","U","-","U","-","U">>, accents |-> {0,2,5}] ]

PatternIds == DOMAIN PATTERNS

\* the rhythm-section patterns: 16 slots of sixteenth notes per bar
DRUM_PATTERNS ==
  [ rock |->
      [kick  |-> <<"k","-","-","-","k","-","-","-","k","-","-","-","k","-","-","-">>,
       snare |-> <<"-","-","-","-","s","-","-","-","-","-","-","-","s","-","-","-">>,
       hihat |-> <<"h","-","h","-","h","-","h","-","h","-","h","-","h","-","h","-">>],
    pop |->
      [kick  |-> <<"k","-","-","-","k","-","k","-","k","-","-","-","k","-","-","-">>,
       snare |-> <<"-","-","-","-","s","-","-","-","-","-","-","-","s","-","-","-">>,
       hihat |-> <<"h","-","h","-","h","-","h","-","h","-","h","-","h","-","h","-">>],
    funk |->
      [kick  |-> <<"k","-","k","-","-","-","k","-","k","-","-","-","k","-","-","-">>,
       snare |-> <<"-","-","-","-","s","-","-","s","-","-","-","-","s","-","-","-">>,
       hihat |-> <<"h","h","h","h","o","h","h","h","h","h","h","h","o","h","h","h">>],
    disco |->
      [kick  |-> <<"k","-","-","-","k","-","-","-","k","-","-","-","k","-","-","-">>,
       snare |-> <<"-","-","-","-","s","-","-","-","-","-","-","-","s","-","-","-">>,
       hihat |-> <<"h","h","h","h","h","h","h","h","h","h","h","h","h","h","h","h">>],
    reggae |->
      [kick  |-> <<"-","-","-","-","k","-","-","-","-","-","-","-","k","-","-","-">>,
       snare |-> <<"-","-","-","-","-","-","-","-","s","-","-","-","-","-","-","-">>,
       hihat |-> <<"-","h","-","h","-","h","-","h","-","h","-","h","-","h","-","h">>],
    ballad |->
      [kick  |-> <<"k","-","-","-","-","-","-","-","k","-","-","-","-","-","-","-">>,
       snare |-> <<"-","-","-","-","s","-","-","-","-","-","-","-","s","-","-","-">>,
       hihat |-> <<"h","-","-","h","-","-","h","-","h","-","-","h","-","-","h","-">>],
    jazz |->
      [kick  |-> <<"k","-","-","k","-","-","k","-","-","k","-","-","k","-","-","-">>,
       snare |-> <<"-","-","s","-","-","s","-","-","s","-","-","s","-","-","s","-">>,
       hihat |-> <<"h","-","h","h","-","h","h","-","h","h","-","h","h","-","h","h">>],
    blues |->
      [kick  |-> <<"k","-","-","-","-","-","k","-","k","-","-","-","-","-","k","-">>,
       snare |-> <<"-","-","-","-","s","-","-","-","-","-","-","-","s","-","-","-">>,
       hihat |-> <<"h","-","h","h","-","h","h","-","h","h","-","h","h","-","h","h">>],
    latin |->
      [kick  |-> <<"k","-","k","-","k","-","-","-","k","-","k","-","k","-","-","-">>,
       snare |-> <<"-","-","-","s","-","-","s","-","-","-","-","s","-","-","s","-">>,
       hihat |-> <<"h","h","h","h","h","h","h","h","h","h","h","h","h","h","h","h">>],
    country |->
      [kick  |-> <<"k","-","-","-","k","k","-","-","k","-","-","-","k","-","-","-">>,
       snare |-> <<"-","-","-","-","s","-","-","-","-","-","-","-","s","-","-","-">>,
       hihat |-> <<"h","-","-","h","-","-","h","-","h","-","-","h","-","-","h","-">>],
    rock2 |->
      [kick  |-> <<"k","-","k","-","k","-","k","-","k","-","k","-","k","-","k","-">>,
       snare |-> <<"-","-","-","-","s","-","-","-","-","-","-","-","s","-","-","-">>,
       hihat |-> <<"h","h","h","h","h","h","h","h","h","h","h","h","h","h","h","h">>],
    punk |->
      [kick  |-> <<"k","k","k","k","k","k","k","k","k","k","k","k","k","k","k","k">>,
       snare |-> <<"-","-","-","-","s","-","-","-","-","-","-","-","s","-","-","-">>,
       hihat |-> <<"h","-","h","-","h","-","h","-","h","-","h","-","h","-","h","-">>],
    metal |->
      [kick  |-> <<"k","-","k","k","-","-","k","k","k","-","k","k","-","-","k","k">>,
       snare |-> <<"-","-","-","-","s","-","-","-","-","-","-","-","s","-","-","-">>,
       hihat |-> <<"h","h","h","h","h","h","h","h","h","h","h","h","h","h","h","h">>],
    hiphop |->
      [kick  |-> <<"k","-","-","-","-","-","k","-","k","-","-","-","-","-","k","-">>,
       snare |-> <<"-","-","-","-","s","-","-","-","-","-","-","-","s","-","-","-">>,
       hihat |-> <<"h","-","h","h","-","h","h","-","h","-","h","h","-","h","h","-">>],
    trap |->
      [kick  |-> <<"k","-","-","-","k","-","-","k","-","-","k","-","-","-","k","-">>,
       snare |-> <<"-","-","-","-","s","-","-","-","-","-","-","-","s","-","-","-">>,
       hihat |-> <<"h","h","h","h","h","h","h","h","h","h","h","h","h","h","h","h">>],
    dnb |->
      [kick  |-> <<"k","-","-","-","-","-","-","-","k","-","-","-","k","-","-","-">>,
       snare |-> <<"-","-","-","-","s","-","-","-","-","-","s","-","-","-","-","-">>,
       hihat |-> <<"h","h","h","h","h","h","h","h","h","h","h","h","h","h","h","h">>],
    house |->
      [kick  |-> <<"k","-","-","-","k","-","-","-","k","-","-","-","k","-","-","-">>,
       snare |-> <<"-","-","-","-","s","-","-","-","-","-","-","-","s","-","-","-">>,
       hihat |-> <<"h","h","h","h","h","h","h","h","h","h","h","h","h","h","h","h">>],
    techno |->
      [kick  |-> <<"k","-","-","-","k","-","-","-","k","-","-","-","k","-","-","-">>,
       snare |-> <<"-","-","s","-","-","-","s","-","-","-","s","-","-","-","s","-">>,
       hihat |-> <<"h","h","h","h","h","h","h","h","h","h","h","h","h","h","h","h">>],
    edm |->
      [kick  |-> <<"k","-","k","-","k","-","k","-","k","-","k","-","k","-","k","-">>,
       snare |-> <<"-","-","-","-","s","-","-","-","-","-","-","-","s","-","-","-">>,
       hihat |-> <<"o","h","o","h","o","h","o","h","o","h","o","h","o","h","o","h">>],
    dubstep |->
      [kick  |-> <<"k","-","-","-","-","-","-","-","k","-","-","k","-","-","-","-">>,
       snare |-> <<"-","-","-","-","s","-","-","-","-","-","-","-","s","-","-","-">>,
       hihat |-> <<"h","h","h","h","h","h","h","h","h","h","h","h","h","h","h","h">>],
    afrobeat |->
      [kick  |-> <<"k","-","-","k","-","-","k","-","k","-","-","k","-","-","k","-">>,
       snare |-> <<"-","-","s","-","-","s","-","-","-","-","s","-","-","s","-","-">>,
       hihat |-> <<"h","h","h","h","h","h","h","h","h","h","h","h","h","h","h","h">>],
    rumba |->
      [kick  |-> <<"k","-","-","-","k","-","k","-","k","-","-","-","k","-","k","-">>,
       snare |-> <<"-","-","-","s","-","-","-","-","-","-","-","s","-","-","-","-">>,
       hihat |-> <<"h","-","h","-","h","-","h","-","h","-","h","-","h","-","h","-">>],
    calypso |->
      [kick  |-> <<"k","-","-","k","-","-","-","-","k","-","-","k","-","-","-","-">>,
       snare |-> <<"-","-","s","-","-","-","s","-","-","-","s","-","-","-","s","-">>,
       hihat |-> <<"h","h","h","h","h","h","h","h","h","h","h","h","h","h","h","h">>],
    ska |->
      [kick  |-> <<"k","-","-","-","k","-","-","-","k","-","-","-","k","-","-","-">>,
       snare |-> <<"-","s","-","s","-","s","-","s","-","s","-","s","-","s","-","s">>,
       hihat |-> <<"-","h","-","h","-","h","-","h","-","h","-","h","-","h","-","h">>],
    gospel |->
      [kick  |-> <<"k","-","-","-","k","-","k","-","k","-","-","-","k","-","-","-">>,
       snare |-> <<"-","-","-","-","s","-","-","s","-","-","-","-","s","-","-","-">>,
       hihat |-> <<"h","-","h","h","-","h","h","-","h","-","h","h","-","h","h","-">>],
    rnb |->
      [kick  |-> <<"k","-","-","-","k","-","k","-","k","-","-","-","-","-","k","-">>,
       snare |-> <<"-","-","-","-","s","-","-","-","-","-","-","-","s","-","-","-">>,
       hihat |-> <<"h","h","h","h","h","h","h","h","h","h","h","h","h","h","h","h">>],
    soul |->
      [kick  |-> <<"k","-","-","-","k","-","-","-","k","-","-","-","k","-","-","k">>,
       snare |-> <<"-","-","-","-","s","-","-","-","-","-","-","-","s","-","-","-">>,
       hihat |-> <<"h","-","h","-","h","-","h","-","h","-","h","-","h","-","h","-">>],
    motown |->
      [kick  |-> <<"k","-","-","-","k","-","k","-","k","-","-","-","k","-","k","-">>,
       snare |-> <<"-","-","-","-","s","-","-","-","-","-","-","-","s","-","-","-">>,
       hihat |-> <<"h","h","h","h","h","h","h","h","h","h","h","h","h","h","h","h">>],
    waltz |->
      [kick  |-> <<"k","-","-","-","-","-","-","-","-","k","-","-","-","-","-","-">>,
       snare |-> <<"-","-","-","s","-","-","s","-","-","-","-","-","s","-","-","s">>,
       hihat |-> <<"h","-","-","h","-","-","h","-","-","h","-","-","h","-","-","h">>],
    march |->
      [kick  |-> <<"k","-","k","-","k","-","k","-","k","-","k","-","k","-","k","-">>,
       snare |-> <<"-","-","s","-","-","-","s","-","-","-","s","-","-","-","s","-">>,
       hihat |-> <<"-","-","-","-","-","-","-","-","-","-","-","-","-","-","-","-">>],
    tango |->
      [kick  |-> <<"k","-","k","-","-","-","-","-","k","-","k","-","-","-","-","-">>,
       snare |-> <<"-","-","-","-","s","-","-","-","-","-","-","-","s","-","-","-">>,
       hihat |-> <<"h","-","h","-","h","-","h","-","h","-","h","-","h","-","h","-">>],
    bolero |->
      [kick  |-> <<"k","-","-","-","-","-","k","-","-","-","k","-","-","-","-","-">>,
       snare |-> <<"-","-","s","-","-","-","-","-","s","-","-","-","-","-","s","-">>,
       hihat |-> <<"h","-","h","-","h","-","h","-","h","-","h","-","h","-","h","-">>],
    flamenco |->
      [kick  |-> <<"k","-","-","k","-","k","-","-","k","-","-","k","-","k","-","-">>,
       snare |-> <<"-","s","-","-","s","-","s","-","-","s","-","-","s","-","s","-">>,
       hihat |-> <<"h","h","h","h","h","h","h","h","h","h","h","h","h","h","h","h">>] ]

DrumPatternIds == DOMAIN DRUM_PATTERNS

\* the chord dictionary: the shapes of the variants of each chord
CHORDS ==
  [ C     |-> << <<X,3,2,0,1,0>>, <<3,3,2,0,1,0>>, <<X,3,2,0,3,3>>, <<X,3,5,5,5,3>>, <<8,10,10,9,8,8>> >>,
    Cmaj7 |-> << <<X,3,2,0,0,0>>, <<X,3,5,4,5,3>> >>,
    C7    |-> << <<X,3,2,3,1,0>>, <<X,3,5,3,5,3>> >>,
    Cm    |-> << <<X,3,5,5,4,3>>, <<8,10,8,8,8,8>> >>,
    Cm7   |-> << <<X,3,5,3,4,3>> >>,
    Cdim  |-> << <<X,X,1,2,1,2>>, <<X,3,4,2,4,2>> >>,
    D     |-> << <<X,X,0,2,3,2>>, <<2,X,0,2,3,2>>, <<X,5,7,7,7,5>> >>,
    Dmaj7 |-> << <<X,X,0,2,2,2>>, <<X,5,7,6,7,5>> >>,
    D7    |-> << <<X,X,0,2,1,2>>, <<X,5,7,5,7,5>> >>,
    Dm    |-> << <<X,X,0,2,3,1>>, <<X,5,7,7,6,5>> >>,
    Dm7   |-> << <<X,X,0,2,1,1>>, <<X,5,7,5,6,5>> >>,
    Ddim  |-> << <<X,X,0,1,0,1>>, <<X,5,6,4,6,4>> >>,
    E     |-> << <<0,2,2,1,0,0>>, <<4,2,2,1,0,0>>, <<12,14,14,13,12,12>> >>,
    Emaj7 |-> << <<0,2,1,1,0,0>>, <<X,X,2,4,4,4>> >>,
    E7    |-> << <<0,2,0,1,0,0>>, <<X,X,2,4,3,4>> >>,
    Em    |-> << <<0,2,2,0,0,0>>, <<X,7,9,9,8,7>> >>,
    Em7   |-> << <<0,2,0,0,0,0>>, <<0,2,2,0,3,0>> >>,
    Edim  |-> << <<X,X,2,3,2,3>>, <<X,7,8,6,8,6>> >>,
    F     |-> << <<1,3,3,2,1,1>>, <<X,X,3,2,1,0>> >>,
    Fmaj7 |-> << <<X,X,3,2,1,0>>, <<1,3,2,2,1,1>> >>,
    F7    |-> << <<1,3,1,2,1,1>>, <<X,X,3,5,4,5>> >>,
    Fm    |-> << <<1,3,3,1,1,1>> >>,
    Fm7   |-> << <<1,3,1,1,1,1>> >>,
    Fdim  |-> << <<X,X,3,4,3,4>>, <<1,2,3,1,3,1>> >>,
    G     |-> << <<3,2,0,0,0,3>>, <<3,5,5,4,3,3>> >>,
    Gmaj7 |-> << <<3,2,0,0,0,2>>, <<3,5,4,4,3,3>> >>,
    G7    |-> << <<3,2,0,0,0,1>>, <<3,5,3,4,3,3>> >>,
    Gm    |-> << <<3,5,5,3,3,3>> >>,
    Gm7   |-> << <<3,5,3,3,3,3>> >>,
    Gdim  |-> << <<X,X,5,6,5,6>>, <<3,4,5,3,5,3>> >>,
    A     |-> << <<X,0,2,2,2,0>>, <<5,7,7,6,5,5>> >>,
    Amaj7 |-> << <<X,0,2,1,2,0>>, <<5,7,6,6,5,5>> >>,
    A7    |-> << <<X,0,2,0,2,0>>, <<5,7,5,6,5,5>> >>,
    Am    |-> << <<X,0,2,2,1,0>>, <<5,7,7,5,5,5>> >>,
    Am7   |-> << <<X,0,2,0,1,0>>, <<5,7,5,5,5,5>> >>,
    Adim  |-> << <<X,0,1,2,1,2>>, <<X,X,7,8,7,8>> >>,
    B     |-> << <<X,2,4,4,4,2>>, <<7,9,9,8,7,7>> >>,
    Bmaj7 |-> << <<X,2,4,3,4,2>> >>,
    B7    |-> << <<X,2,1,2,0,2>>, <<7,9,7,8,7,7>> >>,
    Bm    |-> << <<X,2,4,4,3,2>>, <<7,9,9,7,7,7>> >>,
    Bm7   |-> << <<X,2,4,2,3,2>>, <<X,2,0,2,0,2>> >>,
    Bdim  |-> << <<X,2,3,4,3,4>>, <<X,X,9,10,9,10>> >> ]

CHORD_KEYS == DOMAIN CHORDS

Min(a, b) == IF a < b THEN a ELSE b

\* variant of LookupVoicing that takes variant 0 for an index out of range
LookupVoicing_FirstIfOutOfRange(key, varIdx) ==
  CHORDS[key][IF varIdx >= Len(CHORDS[key]) THEN 1 ELSE varIdx + 1]

\* CHORDS[key].variants[Math.min(varIdx, variants.length-1)]  (0-based varIdx)
LookupVoicing(key, varIdx) ==
  CHORDS[key][Min(varIdx, Len(CHORDS[key]) - 1) + 1]

\* voicingMidis: the pitches of the non-muted strings, low string first
VoicingMidis(shape) ==
  LET idxs == SelectSeq(<<1,2,3,4,5,6>>, LAMBDA s : shape[s] # X)
  IN  [i \in 1..Len(idxs) |-> TUNING_MIDI[idxs[i]] + shape[idxs[i]]]

\* ---------------------------------------------------- notes and symbols
\* A chord symbol is a string; it is modelled as its sequence of characters,
\* and Str gives the dictionary key (a string) it spells.
RECURSIVE Str(_)
Str(cs) == IF cs = <<>> THEN "" ELSE Head(cs) \o Str(Tail(cs))

LowerCase == <<"a","b","c","d","e","f","g","h","i","j","k","l","m","n","o","p","q","r","s","t","u","v","w","x","y","z">>
UpperCase == <<"A","B","C","D","E","F","G","H","I","J","K","L","M","N","O","P","Q","R","S","T","U","V","W","X","Y","Z">>

ToUpperChar(c) ==
  IF \E i \in 1..26 : LowerCase[i] = c
  THEN UpperCase[CHOOSE i \in 1..26 : LowerCase[i] = c] ELSE c

ToLowerChar(c) ==
  IF \E i \in 1..26 : UpperCase[i] = c
  THEN LowerCase[CHOOSE i \in 1..26 : UpperCase[i] = c] ELSE c

ToUpperCase(cs) == [i \in 1..Len(cs) |-> ToUpperChar(cs[i])]
ToLowerCase(cs) == [i \in 1..Len(cs) |-> ToLowerChar(cs[i])]

\* Array.indexOf: the 0-based position of the first occurrence, -1 if absent
IndexOf(arr, x) ==
  IF \E i \in 1..Len(arr) : arr[i] = x
  THEN (CHOOSE i \in 1..Len(arr) : arr[i] = x /\ \A j \in 1..(i-1) : arr[j] # x) - 1
  ELSE -1

\* the % of JavaScript: the remainder has the sign of the dividend
JsRem(a, b) == IF a >= 0 THEN a % b ELSE -((-a) % b)

CHROMA == << <<"C">>, <<"C","#">>, <<"D">>, <<"D","#">>, <<"E">>, <<"F">>, <<"F","#">>, <<"G">>, <<"G","#">>, <<"A">>, <<"A","#">>, <<"B">> >>
toIndex(n) == IndexOf(CHROMA, n)

NATURALS_SHARP == CHROMA
toPc(n) == toIndex(n)
nameForPc(pc) == NATURALS_SHARP[JsRem(JsRem(pc, 12) + 12, 12) + 1]

\* the alternatives of the two groups of the pattern of parseChordSymbol,
\* /^(C#|Db|D#|Eb|F#|Gb|G#|Ab|A#|Bb|[A-G])(maj7|m7b5|m7|7|m|sus2|sus4|dim|°)?$/i,
\* in the order in which they are tried
RootAlternatives ==
  << <<"C","#">>, <<"D","b">>, <<"D","#">>, <<"E","b">>, <<"F","#">>, <<"G","b">>, <<"G","#">>, <<"A","b">>, <<"A","#">>, <<"B","b">>, <<"A">>, <<"B">>, <<"C">>, <<"D">>, <<"E">>, <<"F">>, <<"G">> >>
QualAlternatives ==
  << <<"m","a","j","7">>, <<"m","7","b","5">>, <<"m","7">>, <<"7">>, <<"m">>, <<"s","u","s","2">>, <<"s","u","s","4">>, <<"d","i","m">>, <<"°">> >>

IsPrefixI(alt, cs) ==
  Len(alt) <= Len(cs) /\ ToLowerCase(SubSeq(cs, 1, Len(alt))) = ToLowerCase(alt)

\* what follows root alternative i in the symbol
RootRest(sym, i) == SubSeq(sym, Len(RootAlternatives[i]) + 1, Len(sym))

\* the optional second group: nothing, or one of the quality alternatives
IsQualOrEmpty(rest) ==
  \/ rest = <<>>
  \/ \E q \in 1..Len(QualAlternatives) :
        ToLowerCase(rest) = ToLowerCase(QualAlternatives[q])

\* root alternative i matches the whole symbol
Fits(sym, i) ==
  IsPrefixI(RootAlternatives[i], sym) /\ IsQualOrEmpty(RootRest(sym, i))

\* the alternation takes the first alternative that lets the pattern match
FirstAlternative(ok) == CHOOSE k \in ok : \A j \in ok : k <= j

\* the groups of the match with root alternative i
MatchGroups(sym, i) == << SubSeq(sym, 1, Len(RootAlternatives[i])), RootRest(sym, i) >>

MatchAmong(sym, ok) ==
  IF ok = {} THEN <<>> ELSE MatchGroups(sym, FirstAlternative(ok))

\* sym.match(...): the first root alternative after which the rest of the
\* symbol is empty or one of the quality alternatives; <<>> when none matches
MatchChordSymbol(sym) ==
  MatchAmong(sym, {i \in 1..Len(RootAlternatives) : Fits(sym, i)})

\* root.replace("DB","C#").replace("EB","D#")...: the flat names in sharps
SharpOfFlat(root) ==
  CASE root = <<"D","B">> -> <<"C","#">>
    [] root = <<"E","B">> -> <<"D","#">>
    [] root = <<"G","B">> -> <<"F","#">>
    [] root = <<"A","B">> -> <<"G","#">>
    [] root = <<"B","B">> -> <<"A","#">>
    [] OTHER -> root

\* the quality of the match in lower case, the degree sign read as "dim"
NormalQual(qual) == IF qual = <<"°">> THEN <<"d","i","m">> ELSE qual

\* the result of parseChordSymbol for the outcome m of the match
ParsedMatch(sym, m) ==
  IF m = <<>>
  THEN [root |-> ToUpperCase(SubSeq(sym, 1, 1)), qual |-> SubSeq(sym, 2, Len(sym))]
  ELSE [root |-> SharpOfFlat(ToUpperCase(m[1])), qual |-> NormalQual(ToLowerCase(m[2]))]

parseChordSymbol(sym) == ParsedMatch(sym, MatchChordSymbol(sym))

\* the presets of the progression select: degrees above the tonic
PROGRESSIONS ==
  ("I-IV-V" :> <<
      [semitones |-> 0, quality |-> <<>>, alternatives |-> << <<"7">>, <<"m","a","j","7">> >>],
      [semitones |-> 5, quality |-> <<>>, alternatives |-> << <<"7">>, <<"m","a","j","7">> >>],
      [semitones |-> 7, quality |-> <<>>, alternatives |-> << <<"7">> >>] >>) @@
  ("I-V-vi-IV" :> <<
      [semitones |-> 0, quality |-> <<>>, alternatives |-> << <<"m","a","j","7">> >>],
      [semitones |-> 7, quality |-> <<>>, alternatives |-> << <<"7">> >>],
      [semitones |-> 9, quality |-> <<"m">>, alternatives |-> << <<"m","7">> >>],
      [semitones |-> 5, quality |-> <<>>, alternatives |-> << <<"m","a","j","7">> >>] >>) @@
  ("ii-V-I" :> <<
      [semitones |-> 2, quality |-> <<"m","7">>, alternatives |-> << <<"m">> >>],
      [semitones |-> 7, quality |-> <<"7">>, alternatives |-> << <<>> >>],
      [semitones |-> 0, quality |-> <<"m","a","j","7">>, alternatives |-> << <<>> >>] >>) @@
  ("I-vi-IV-V" :> <<
      [semitones |-> 0, quality |-> <<>>, alternatives |-> << <<"m","a","j","7">> >>],
      [semitones |-> 9, quality |-> <<"m">>, alternatives |-> << <<"m","7">> >>],
      [semitones |-> 5, quality |-> <<>>, alternatives |-> << <<"m","a","j","7">> >>],
      [semitones |-> 7, quality |-> <<>>, alternatives |-> << <<"7">> >>] >>) @@
  ("I-ii-iii-IV-V-vi-vii" :> <<
      [semitones |-> 0, quality |-> <<>>, alternatives |-> << <<"m","a","j","7">> >>],
      [semitones |-> 2, quality |-> <<"m">>, alternatives |-> << <<"m","7">> >>],
      [semitones |-> 4, quality |-> <<"m">>, alternatives |-> << <<"m","7">> >>],
      [semitones |-> 5, quality |-> <<>>, alternatives |-> << <<"m","a","j","7">> >>],
      [semitones |-> 7, quality |-> <<>>, alternatives |-> << <<"7">> >>],
      [semitones |-> 9, quality |-> <<"m">>, alternatives |-> << <<"m","7">> >>],
      [semitones |-> 11, quality |-> <<"d","i","m">>, alternatives |-> << <<"m","7">> >>] >>) @@
  ("I-IV-I-V" :> <<
      [semitones |-> 0, quality |-> <<"7">>, alternatives |-> << <<>> >>],
      [semitones |-> 5, quality |-> <<"7">>, alternatives |-> << <<>> >>],
      [semitones |-> 0, quality |-> <<"7">>, alternatives |-> << <<>> >>],
      [semitones |-> 7, quality |-> <<"7">>, alternatives |-> << <<>> >>] >>) @@
  ("vi-IV-I-V" :> <<
      [semitones |-> 9, quality |-> <<"m">>, alternatives |-> << <<"m","7">> >>],
      [semitones |-> 5, quality |-> <<>>, alternatives |-> << <<"m","a","j","7">> >>],
      [semitones |-> 0, quality |-> <<>>, alternatives |-> << <<"m","a","j","7">> >>],
      [semitones |-> 7, quality |-> <<>>, alternatives |-> << <<"7">> >>] >>)

ProgressionKeys == DOMAIN PROGRESSIONS

\* the symbol of a degree: the root and the suffix of its quality
QualitySuffix(q) ==
  IF q \in {<<"m">>, <<"7">>, <<"m","7">>, <<"m","a","j","7">>, <<"d","i","m">>}
  THEN q ELSE <<>>

\* variant of buildSequenceFromProgression that leaves the quality suffix out
buildSequenceFromProgression_RootsOnly(tonicRoot, progressionKey) ==
  IF ~Truthy(PROGRESSIONS, progressionKey) THEN <<>>
  ELSE IF progressionKey \notin DOMAIN PROGRESSIONS THEN TypeError
  ELSE LET prog == PROGRESSIONS[progressionKey]
           base == toPc(tonicRoot)
       IN  [i \in 1..Len(prog) |-> nameForPc(base + prog[i].semitones)]

\* if (!prog) return []; an inherited name passes the test and
\* prog.degrees.map throws, prog.degrees being undefined
buildSequenceFromProgression(tonicRoot, progressionKey) ==
  IF ~Truthy(PROGRESSIONS, progressionKey) THEN <<>>
  ELSE IF progressionKey \notin DOMAIN PROGRESSIONS THEN TypeError
  ELSE LET prog == PROGRESSIONS[progressionKey]
           base == toPc(tonicRoot)
       IN  [i \in 1..Len(prog) |->
              nameForPc(base + prog[i].semitones) \o QualitySuffix(prog[i].quality)]

\* CHORDS[sym] is truthy
InDict(cs) == Truthy(CHORDS, Str(cs))

\* the candidate at the first of the positions ok, or "C" when there is none
FirstAmong(cands, ok) ==
  IF ok = {} THEN "C" ELSE Str(cands[FirstAlternative(ok)])

\* the first of the candidate symbols that is a key of the dictionary, or "C"
FirstInDict(cands) ==
  FirstAmong(cands, {i \in 1..Len(cands) : InDict(cands[i])})

Maj7 == <<"m","a","j","7">>

\* the fallback candidates of a parsed symbol, in the order of the if chain
FallbackCandidates(root, qual) ==
  (IF qual = Maj7 THEN <<root \o Maj7, root>> ELSE <<>>) \o
  (IF qual = <<"m","7">> THEN <<root \o <<"m","7">>, root \o <<"m">> >> ELSE <<>>) \o
  (IF qual = <<"7">> THEN <<root \o <<"7">>, root>> ELSE <<>>) \o
  (IF qual = <<"m">> THEN <<root \o <<"m">>, root>> ELSE <<>>) \o
  (IF qual = <<"d","i","m">>
   THEN <<root \o <<"d","i","m">>, root \o <<"m">>, root>> ELSE <<>>)

FallbackOf(p) == FirstInDict(FallbackCandidates(p.root, p.qual))

\* variant of mapSymbolToDictKey whose last resort is the root of the symbol
mapSymbolToDictKey_RootAsLastResort(sym) ==
  IF InDict(sym) THEN Str(sym)
  ELSE Str(parseChordSymbol(sym).root)

mapSymbolToDictKey(sym) ==
  IF InDict(sym) THEN Str(sym)
  ELSE FallbackOf(parseChordSymbol(sym))

\* symbols.map((sym, i) => ({ key: mapSymbolToDictKey(sym), varIdx: 0, degreeIdx: i }))
SeqItems(symbols) ==
  [i \in 1..Len(symbols) |->
     [key |-> mapSymbolToDictKey(symbols[i]), varIdx |-> 0, degreeIdx |-> i - 1]]

\* stepMs = (60_000 / bpm) / 2 ; setInterval truncates the delay to whole ms
StepMs(b) == 30000 \div b

initialSeq == SeqItems(buildSequenceFromProgression(<<"C">>, "I-V-vi-IV"))

InitChordKey == "C"
InitVariantIdx == 0
InitInstrument == "acoustic_guitar_nylon"

\* ------------------------------------------------------------------- state
VARIABLES
  bpm, patternId, loopSingle, loopSequence, sequence,      \* React state
  drumsEnabled, drumPatternId, bassEnabled, bassPattern,   \* React state
  chordKey, variantIdx,      \* React state: chord and voicing of the single panel
  instrument,                \* React state: the instrument of the select
  key, progression,          \* React state: tonic and progression preset
  currentBar, isPlayingSingle, isPlayingSequence,          \* React state
  mounted,       \* the component is rendered: FALSE once a render has thrown
  singleTimerRef, singleStepIdxRef,                        \* refs (0 = null)
  seqTimerRef, seqStepIdxRef, seqBarIdxRef,                \* refs (0 = null)
  timers,        \* the intervals the browser still fires: id -> closure
  pending,       \* async tasks suspended at an await, each await's callers in
                 \* call order: start handlers, chord previews, strums, the tone
  sfCtx, inst, loading, drumCtx,                           \* sound backend
  currentInstrumentRef,      \* the instrument ensure() was last asked for
  call, ret,     \* a function of the program applied to arguments: the
                 \* arguments, and the value it returned
  h              \* observations of the run (history), not program state

vars == << bpm, patternId, loopSingle, loopSequence, sequence,
           drumsEnabled, drumPatternId, bassEnabled, bassPattern,
           chordKey, variantIdx, instrument, key, progression,
           currentBar, isPlayingSingle, isPlayingSequence, mounted,
           singleTimerRef, singleStepIdxRef,
           seqTimerRef, seqStepIdxRef, seqBarIdxRef,
           timers, pending, sfCtx, inst, loading, drumCtx, currentInstrumentRef,
           call, ret, h >>

NoTimer == 0

\* The whole state as one record, so that a handler is a function on states.
St ==
  [ bpm |-> bpm, patternId |-> patternId, loopSingle |-> loopSingle,
    loopSequence |-> loopSequence, sequence |-> sequence,
    drumsEnabled |-> drumsEnabled, drumPatternId |-> drumPatternId,
    bassEnabled |-> bassEnabled, bassPattern |-> bassPattern,
    chordKey |-> chordKey, variantIdx |-> variantIdx, instrument |-> instrument,
    key |-> key, progression |-> progression,
    currentBar |-> currentBar, isPlayingSingle |-> isPlayingSingle,
    isPlayingSequence |-> isPlayingSequence, mounted |-> mounted,
    singleTimerRef |-> singleTimerRef, singleStepIdxRef |-> singleStepIdxRef,
    seqTimerRef |-> seqTimerRef, seqStepIdxRef |-> seqStepIdxRef,
    seqBarIdxRef |-> seqBarIdxRef,
    timers |-> timers, pending |-> pending,
    sfCtx |-> sfCtx, inst |-> inst, loading |-> loading, drumCtx |-> drumCtx,
    currentInstrumentRef |-> currentInstrumentRef,
    call |-> call, ret |-> ret, h |-> h,
    \* the state the platform gives a context constructed in the step: set by
    \* the steps that can construct one
    newCtxState |-> "none" ]

\* cleanup of the preview effect: the preview in progress makes no further
\* playMidi call; one that waits in resume() still runs its ensure()
CancelPreview(s) ==
  LET kept == SelectSeq(s.pending, LAMBDA q : ~(q.mode = "preview" /\ q.pc = "load"))
  IN  [s EXCEPT !.pending =
         [j \in 1..Len(kept) |-> IF kept[j].mode = "preview"
                                 THEN [kept[j] EXCEPT !.left = 0] ELSE kept[j]]]

\* the render of the state s throws: while the sequence plays, the panel of
\* the bar shown as current reads variants[varIdx].label with the index of
\* the bar as it is, undefined past the last variant of the chord
RenderThrows(s) ==
  /\ s.isPlayingSequence /\ s.currentBar >= 0 /\ s.currentBar < Len(s.sequence)
  /\ s.sequence[s.currentBar + 1].varIdx >=
        Len(CHORDS[s.sequence[s.currentBar + 1].key])

\* React renders the state s a step has set.  A render that throws, or an
\* effect of the step that threw, unmounts the component (there is no error
\* boundary), which runs the cleanup of the preview effect; the refs, the intervals and the tasks under way stay.
\* Once unmounted nothing is rendered and the state setters do nothing
AfterRender(s) ==
  IF ~mounted
  THEN [s EXCEPT !.currentBar = currentBar,
                 !.isPlayingSingle = isPlayingSingle,
                 !.isPlayingSequence = isPlayingSequence]
  ELSE IF RenderThrows(s) \/ ~s.mounted
  THEN [CancelPreview(s) EXCEPT !.mounted = FALSE]
  ELSE s

\* the next state is s; ticked records whether the step was an interval callback
Store(s, ticked) ==
  /\ bpm' = s.bpm /\ patternId' = s.patternId
  /\ loopSingle' = s.loopSingle /\ loopSequence' = s.loopSequence
  /\ sequence' = s.sequence /\ currentBar' = s.currentBar
  /\ drumsEnabled' = s.drumsEnabled /\ drumPatternId' = s.drumPatternId
  /\ bassEnabled' = s.bassEnabled /\ bassPattern' = s.bassPattern
  /\ chordKey' = s.chordKey /\ variantIdx' = s.variantIdx
  /\ instrument' = s.instrument
  /\ currentInstrumentRef' = s.currentInstrumentRef
  /\ key' = s.key /\ progression' = s.progression
  /\ isPlayingSingle' = s.isPlayingSingle
  /\ isPlayingSequence' = s.isPlayingSequence
  /\ mounted' = s.mounted
  /\ singleTimerRef' = s.singleTimerRef
  /\ singleStepIdxRef' = s.singleStepIdxRef
  /\ seqTimerRef' = s.seqTimerRef /\ seqStepIdxRef' = s.seqStepIdxRef
  /\ seqBarIdxRef' = s.seqBarIdxRef
  /\ timers' = s.timers /\ pending' = s.pending
  /\ sfCtx' = s.sfCtx /\ inst' = s.inst /\ loading' = s.loading
  /\ drumCtx' = s.drumCtx /\ call' = s.call /\ ret' = s.ret
  /\ h' = [s.h EXCEPT !.ticked = ticked]

\* a step of the platform (interval callback, promise settled), rendered
CommitAs(s, ticked) ==
  \E r \in {s} : \E a \in {AfterRender(r)} : Store(a, ticked)

\* a step of the user on a control of the component, rendered: there is none
\* once the component is unmounted
Commit(s) == mounted /\ CommitAs(s, FALSE)

EmptyTimers == [i \in {} |-> 0]

InitHist ==
  [ steps |-> <<>>,        \* step indices ticked since the clock was armed / wrapped
    strums |-> {},         \* steps of that run at which a strum was issued
    roots |-> <<>>,        \* steps of that run at which the root hit was issued
    slots |-> <<>>,        \* drum slots evaluated at the ticks of that run
    kicks |-> {},          \* steps of that run at which the kick was fired
    bassAt |-> {},         \* steps of that run at which a bass note was issued
    drumsOn |-> TRUE,      \* drumsEnabled of the render of the clock armed last
    drumPat |-> "rock",    \* drumPatternId of the render of the clock armed last
    armDrums |-> TRUE,     \* drumsEnabled when the clock was armed
    armBass |-> FALSE,     \* bassEnabled when the clock was armed
    bars |-> <<>>,         \* bars armed since the start command / the wrap
    ticks |-> 0,           \* ticks since the start command / the wrap
    pat |-> "folk1",       \* pattern of the clock armed last
    n |-> 0,               \* length of the sequence played by the clock armed last
    clean |-> TRUE,        \* no tempo/pattern restart since the start command
    done |-> "none",       \* mode whose clock ended by itself at its last tick
    stoppedAt |-> -1,      \* step counter at the last stop command, -1 after an arm
    liveAtArm |-> {},      \* intervals still live when setInterval was last called
    loads |-> 0,           \* calls of Soundfont.instrument() not yet settled
    drumGraphs |-> 0,      \* audio contexts constructed by the drum sampler
    tickHeld |-> TRUE,     \* the last tick's interval was held by its mode's ref
    staleWin |-> FALSE,    \* the last start to arm had been superseded by a later one
    err |-> FALSE,         \* playSequenceBar threw (sequence[barIdx] undefined)
    ticked |-> FALSE ]     \* the last step was an interval callback

NoCall == [op |-> "none"]
NoRet == [done |-> FALSE]
Returned(v) == [done |-> TRUE, val |-> v]

\* the React state and the refs after the mount
InitApp ==
  /\ bpm = 92 /\ patternId = "folk1"
  /\ loopSingle = FALSE /\ loopSequence = TRUE
  /\ sequence = initialSeq
  /\ drumsEnabled = TRUE /\ drumPatternId = "rock" /\ bassEnabled = FALSE
  /\ bassPattern = "root-fifth"
  /\ chordKey = InitChordKey /\ variantIdx = InitVariantIdx
  /\ instrument = InitInstrument
  /\ key = <<"C">> /\ progression = "I-V-vi-IV"
  /\ currentBar = -1
  /\ isPlayingSingle = FALSE /\ isPlayingSequence = FALSE
  /\ mounted = TRUE
  /\ singleTimerRef = NoTimer /\ singleStepIdxRef = 0
  /\ seqTimerRef = NoTimer /\ seqStepIdxRef = 0 /\ seqBarIdxRef = 0
  /\ timers = EmptyTimers

\* an async task suspended at an await: a start handler with its render, or
\* a task that only plays (chord preview, strum, reference tone) with the
\* instrument name of its render and the playMidi calls it has left to make
Waiting(mode, pc, name, left) ==
  [mode |-> mode, pc |-> pc, r |-> [instrument |-> name],
   superseded |-> FALSE, left |-> left]

\* the strings the chord preview plays: fretted ones (neither "x" nor 0)
PreviewStrings(shape) ==
  Cardinality({s \in 1..6 : shape[s] # X /\ shape[s] # 0})

Init ==
  /\ InitApp
  /\ call = NoCall /\ ret = NoRet
  \* the chord-preview effect runs startAudio() on mount: the context exists;
  \* it is either suspended (the preview waits in resume()), or running with
  \* the instrument load begun by the preview's startAudio(), which waits for it
  /\ \E running \in BOOLEAN :
        /\ sfCtx = IF running THEN "running" ELSE "suspended"
        /\ loading = running
        /\ currentInstrumentRef = IF running THEN InitInstrument ELSE "none"
        /\ pending = << Waiting("preview", IF running THEN "load" ELSE "sfResume",
                                InitInstrument,
                                PreviewStrings(LookupVoicing(InitChordKey, InitVariantIdx))) >>
        /\ h = [InitHist EXCEPT !.loads = IF running THEN 1 ELSE 0]
  /\ inst = "none"
  /\ drumCtx = "none"

\* the application with both contexts running and the instrument loaded, as
\* after a first start command, and a function about to be applied to args
InitCall(args) ==
  /\ InitApp
  /\ pending = <<>>
  /\ sfCtx = "running" /\ inst = "loaded" /\ loading = FALSE
  /\ currentInstrumentRef = InitInstrument
  /\ drumCtx = "running"
  /\ h = [InitHist EXCEPT !.drumGraphs = 1]
  /\ call \in args /\ ret = NoRet

\* ----------------------------------------------------------- sound backend
\* variant of BeginLoad that does not test loadingRef
BeginLoad_NoLoadingGuard(s) ==
  IF s.inst = "none"
  THEN [s EXCEPT !.loading = TRUE, !.h.loads = @ + 1]
  ELSE s

\* useSF.ensure() past its instrument test: Soundfont.instrument() is called
\* unless the instrument is there or loadingRef says a load is in flight
BeginLoad(s) ==
  IF s.inst = "none" /\ ~s.loading
  THEN [s EXCEPT !.loading = TRUE, !.h.loads = @ + 1]
  ELSE s

\* useSF.ensure() of a render whose instrument is name, past its resume: an
\* instrument other than the one asked for last drops the loaded one
InstrumentCheck(s, name) ==
  IF s.currentInstrumentRef # name
  THEN [s EXCEPT !.inst = "none", !.currentInstrumentRef = name]
  ELSE s

\* the synchronous part of ensure() past its resume
Ensure(s, name) == BeginLoad(InstrumentCheck(s, name))

\* whether that call of ensure() begins a load, which its caller awaits
AwaitsLoad(s, name) ==
  ~s.loading /\ (s.inst = "none" \/ s.currentInstrumentRef # name)

\* ------------------------------------------------------------------ timers
\* clearInterval(handle): the interval never fires again; null is a no-op
ClearInterval(tm, handle) == [i \in (DOMAIN tm) \ {handle} |-> tm[i]]

\* the handle window.setInterval returns: a positive integer not in use
NewTimerId(tm) ==
  CHOOSE i \in 1..(Cardinality(DOMAIN tm) + 1) :
    /\ i \notin DOMAIN tm
    /\ \A j \in 1..(i-1) : j \in DOMAIN tm

SetInterval(tm, id, closure) ==
  [i \in (DOMAIN tm) \cup {id} |-> IF i = id THEN closure ELSE tm[i]]

ArmHist(s, closure) ==
  [s.h EXCEPT !.steps = <<>>, !.strums = {}, !.roots = <<>>,
              !.slots = <<>>, !.kicks = {}, !.bassAt = {},
              !.drumsOn = closure.drumsEnabled, !.drumPat = closure.drumPatternId,
              !.armDrums = s.drumsEnabled, !.armBass = s.bassEnabled,
              !.bars = IF closure.mode = "seq" /\ s.h.clean THEN Append(@, closure.bar) ELSE @,
              !.pat = closure.pat, !.n = Len(closure.seq),
              !.done = "none", !.stoppedAt = -1,
              !.liveAtArm = DOMAIN s.timers, !.err = FALSE]

\* the values of render state a bar player captures (currentVoicing as its
\* chordKey and variantIdx)
RenderSingle(s) ==
  [pat |-> s.patternId, bpm |-> s.bpm, loop |-> s.loopSingle, seq |-> <<>>,
   key |-> s.chordKey, varIdx |-> s.variantIdx,
   drumsEnabled |-> s.drumsEnabled, drumPatternId |-> s.drumPatternId,
   bassEnabled |-> s.bassEnabled, bassPattern |-> s.bassPattern,
   instrument |-> s.instrument]

RenderSequence(s) ==
  [pat |-> s.patternId, bpm |-> s.bpm, loop |-> s.loopSequence, seq |-> s.sequence,
   drumsEnabled |-> s.drumsEnabled, drumPatternId |-> s.drumPatternId,
   bassEnabled |-> s.bassEnabled, bassPattern |-> s.bassPattern,
   instrument |-> s.instrument]

\* variant of playSingleChordBar that does not reset the step counter (line 1158 missing)
playSingleChordBar_KeepsStep(s, r) ==
  LET id == NewTimerId(s.timers)
      closure == [mode |-> "single", pat |-> r.pat, bpm |-> r.bpm,
                  ms |-> StepMs(r.bpm), loop |-> r.loop, seq |-> <<>>,
                  key |-> r.key, varIdx |-> r.varIdx, bar |-> -1,
                  drumsEnabled |-> r.drumsEnabled,
                  drumPatternId |-> r.drumPatternId,
                  bassEnabled |-> r.bassEnabled,
                  bassPattern |-> r.bassPattern,
                  instrument |-> r.instrument]
  IN  [s EXCEPT !.singleTimerRef = id,
                !.timers = SetInterval(@, id, closure),
                !.h = ArmHist(s, closure)]

\* playSingleChordBar of the render r
playSingleChordBar(s, r) ==
  LET id == NewTimerId(s.timers)
      closure == [mode |-> "single", pat |-> r.pat, bpm |-> r.bpm,
                  ms |-> StepMs(r.bpm), loop |-> r.loop, seq |-> <<>>,
                  key |-> r.key, varIdx |-> r.varIdx, bar |-> -1,
                  drumsEnabled |-> r.drumsEnabled,
                  drumPatternId |-> r.drumPatternId,
                  bassEnabled |-> r.bassEnabled,
                  bassPattern |-> r.bassPattern,
                  instrument |-> r.instrument]
  IN  [s EXCEPT !.singleStepIdxRef = 0,
                !.singleTimerRef = id,
                !.timers = SetInterval(@, id, closure),
                !.h = ArmHist(s, closure)]

\* variant of playSequenceBar without setCurrentBar(barIdx) (line 1216 missing)
playSequenceBar_KeepsCurrentBar(s, r, barIdx) ==
  IF barIdx < 0 \/ barIdx >= Len(r.seq)
  THEN [s EXCEPT !.h.err = TRUE]
  ELSE
    LET item == r.seq[barIdx + 1]
        id == NewTimerId(s.timers)
        closure == [mode |-> "seq", pat |-> r.pat, bpm |-> r.bpm,
                    ms |-> StepMs(r.bpm), loop |-> r.loop, seq |-> r.seq,
                    key |-> item.key, varIdx |-> item.varIdx, bar |-> barIdx,
                    drumsEnabled |-> r.drumsEnabled,
                    drumPatternId |-> r.drumPatternId,
                    bassEnabled |-> r.bassEnabled,
                  bassPattern |-> r.bassPattern,
                  instrument |-> r.instrument]
    IN  [s EXCEPT !.seqStepIdxRef = 0,
                  !.seqTimerRef = id,
                  !.timers = SetInterval(@, id, closure),
                  !.h = ArmHist(s, closure)]

\* playSequenceBar(barIdx) of the render r; sequence[barIdx] undefined throws
playSequenceBar(s, r, barIdx) ==
  IF barIdx < 0 \/ barIdx >= Len(r.seq)
  THEN [s EXCEPT !.h.err = TRUE]
  ELSE
    LET item == r.seq[barIdx + 1]
        id == NewTimerId(s.timers)
        closure == [mode |-> "seq", pat |-> r.pat, bpm |-> r.bpm,
                    ms |-> StepMs(r.bpm), loop |-> r.loop, seq |-> r.seq,
                    key |-> item.key, varIdx |-> item.varIdx, bar |-> barIdx,
                    drumsEnabled |-> r.drumsEnabled,
                    drumPatternId |-> r.drumPatternId,
                    bassEnabled |-> r.bassEnabled,
                  bassPattern |-> r.bassPattern,
                  instrument |-> r.instrument]
    IN  [s EXCEPT !.currentBar = barIdx,
                  !.seqStepIdxRef = 0,
                  !.seqTimerRef = id,
                  !.timers = SetInterval(@, id, closure),
                  !.h = ArmHist(s, closure)]

\* variant of playDrumStep that takes the strum step for the drum slot
playDrumStep_SlotIsStep(r, stepIdx) ==
  IF ~r.drumsEnabled \/ ~Truthy(DRUM_PATTERNS, r.drumPatternId)
  THEN [slots |-> <<>>, samples |-> <<>>, threw |-> FALSE]
  ELSE IF r.drumPatternId \notin DOMAIN DRUM_PATTERNS
  THEN [slots |-> <<>>, samples |-> <<>>, threw |-> TRUE]
  ELSE LET drumPat == DRUM_PATTERNS[r.drumPatternId]
           idx == (stepIdx \div 2) % 16
       IN  [slots |-> <<idx>>,
            samples |->
              (IF drumPat.kick[idx + 1] = "k" THEN <<"kick">> ELSE <<>>) \o
              (IF drumPat.snare[idx + 1] = "s" THEN <<"snare">> ELSE <<>>) \o
              (IF drumPat.hihat[idx + 1] = "h" THEN <<"hihat">> ELSE <<>>) \o
              (IF drumPat.hihat[idx + 1] = "o" THEN <<"openhat">> ELSE <<>>),
            threw |-> FALSE]

\* playDrumStep(stepIdx) of the render r: the slot evaluated (none when the
\* drums are off) and the samples fired, in call order.  A pattern id that is
\* a name the table inherits passes "if (!drumPat) return" and drumPat.kick[idx]
\* throws, drumPat.kick being undefined
playDrumStep(r, stepIdx) ==
  IF ~r.drumsEnabled \/ ~Truthy(DRUM_PATTERNS, r.drumPatternId)
  THEN [slots |-> <<>>, samples |-> <<>>, threw |-> FALSE]
  ELSE IF r.drumPatternId \notin DOMAIN DRUM_PATTERNS
  THEN [slots |-> <<>>, samples |-> <<>>, threw |-> TRUE]
  ELSE LET drumPat == DRUM_PATTERNS[r.drumPatternId]
           idx == stepIdx % 16
       IN  [slots |-> <<idx>>,
            samples |->
              (IF drumPat.kick[idx + 1] = "k" THEN <<"kick">> ELSE <<>>) \o
              (IF drumPat.snare[idx + 1] = "s" THEN <<"snare">> ELSE <<>>) \o
              (IF drumPat.hihat[idx + 1] = "h" THEN <<"hihat">> ELSE <<>>) \o
              (IF drumPat.hihat[idx + 1] = "o" THEN <<"openhat">> ELSE <<>>),
            threw |-> FALSE]

\* the switch of playBassNote: what is added to noteMidi at step idx of the bar
BassOffset(pattern, idx) ==
  CASE pattern = "root-fifth" -> IF idx = 2 \/ idx = 6 THEN 7 ELSE 0
    [] pattern = "walking" ->
         (CASE idx = 1 -> 2 [] idx = 2 -> 4 [] idx = 3 -> 5 [] idx = 4 -> 7
            [] idx = 5 -> 5 [] idx = 6 -> 4 [] idx = 7 -> 2 [] OTHER -> 0)
    [] pattern = "swing" -> IF idx = 2 \/ idx = 5 THEN 7 ELSE 0
    [] pattern = "bossa" -> IF idx = 2 THEN 7 ELSE 0
    [] pattern = "octave" -> IF idx % 2 = 1 THEN 12 ELSE 0
    [] pattern = "arpeggio" ->
         (CASE idx = 1 \/ idx = 5 -> 4 [] idx = 2 \/ idx = 6 -> 7
            [] idx = 3 \/ idx = 7 -> 12 [] OTHER -> 0)
    [] pattern = "funk" -> IF idx = 2 THEN 7 ELSE 0
    [] pattern = "rock" -> IF idx = 4 THEN 7 ELSE 0
    [] pattern = "jazz-walk" ->
         (CASE idx = 1 -> 2 [] idx = 2 -> 3 [] idx = 3 -> 5 [] idx = 4 -> 7
            [] idx = 5 -> 9 [] idx = 6 -> 11 [] idx = 7 -> 10 [] OTHER -> 0)
    [] pattern = "blues" ->
         (CASE idx = 2 -> -2 [] idx = 4 -> 7 [] idx = 6 -> 5 [] OTHER -> 0)
    [] pattern = "latin" -> IF idx \in {1, 3, 5, 7} THEN 7 ELSE 0
    [] pattern = "country" ->
         (CASE idx = 2 \/ idx = 6 -> 5 [] idx = 4 -> 7 [] OTHER -> 0)
    [] pattern = "hiphop" -> IF idx = 3 \/ idx = 7 THEN 7 ELSE 0
    [] pattern \in {"trap", "dubstep"} -> IF idx = 2 \/ idx = 6 THEN -12 ELSE 0
    [] pattern = "dnb" -> IF idx % 2 = 0 THEN (IF idx % 4 = 0 THEN 0 ELSE 7) ELSE 0
    [] OTHER -> 0

\* the switch of playBassNote: shouldPlay at step idx of the bar
BassShouldPlay(pattern, idx) ==
  CASE pattern = "swing" -> idx \in {0, 3, 6, 2, 5}
    [] pattern = "bossa" -> idx \in {0, 3, 5, 2}
    [] pattern = "reggae" -> idx \notin {1, 3, 5, 7}
    [] pattern \in {"disco", "house"} -> idx % 2 # 1
    [] pattern = "funk" -> idx \notin {4, 5}
    [] pattern = "metal" -> idx % 2 = 0
    [] pattern = "hiphop" -> idx \notin {1, 5}
    [] pattern \in {"trap", "dubstep"} -> idx \in {0, 4, 2, 6}
    [] pattern = "dnb" -> idx % 2 = 0
    [] pattern = "ska" -> idx % 2 # 0
    [] OTHER -> TRUE

\* what one tick issues.  The playMidi calls of the root hit, of the first
\* string of the strum and of the bass note reach ensure() in that order within
\* the callback; the first begins the instrument load if one is due, and a
\* strum that began it goes on with its other strings when the load settles.
\* A playDrumStep that throws ends the callback before the bass note
EmitTick(s, id, idx, root, strum, sounding) ==
  LET c == s.timers[id]
      held == IF c.mode = "single" THEN id = s.singleTimerRef ELSE id = s.seqTimerRef
      stepRef == IF c.mode = "single" THEN s.singleStepIdxRef ELSE s.seqStepIdxRef
      drum == playDrumStep(c, stepRef * 2)
      bass == /\ ~drum.threw
              /\ sounding /\ c.bassEnabled /\ BassShouldPlay(c.bassPattern, stepRef % 8)
      midi == root \/ (strum /\ sounding) \/ bass
      strings == Len(VoicingMidis(LookupVoicing(c.key, c.varIdx)))
      byStrum == /\ ~root /\ strum /\ sounding
                 /\ AwaitsLoad(s, c.instrument) /\ strings > 1
      s0 == IF midi THEN Ensure(s, c.instrument) ELSE s
      s1 == IF byStrum
            THEN [s0 EXCEPT !.pending =
                    Append(@, Waiting("strum", "load", c.instrument, strings - 1))]
            ELSE s0
  IN  [s1 EXCEPT !.h = [@ EXCEPT !.steps = Append(@, idx),
                                !.strums = IF strum THEN @ \cup {idx} ELSE @,
                                !.roots = IF root THEN Append(@, idx) ELSE @,
                                !.slots = @ \o drum.slots,
                                !.kicks = IF \E j \in 1..Len(drum.samples) :
                                               drum.samples[j] = "kick"
                                          THEN @ \cup {idx} ELSE @,
                                !.bassAt = IF bass THEN @ \cup {idx} ELSE @,
                                !.ticks = IF s.h.clean THEN @ + 1 ELSE @,
                                !.tickHeld = held]]

WrapHist(hh) ==
  [hh EXCEPT !.steps = <<>>, !.strums = {}, !.roots = <<>>, !.bars = <<>>, !.ticks = 0,
             !.slots = <<>>, !.kicks = {}, !.bassAt = {}]

\* variant of TickSingle that ends the bar one tick late (> 8 for >= 8)
TickSingle_LateEnd(s, id) ==
  LET c == s.timers[id]
      idx == s.singleStepIdxRef % 8
      st == PATTERNS[c.pat].steps[idx + 1]
      mids == VoicingMidis(LookupVoicing(c.key, c.varIdx))
      s1 == EmitTick(s, id, idx, idx = 0 /\ Len(mids) > 0, st # "-", Len(mids) > 0)
      n == s.singleStepIdxRef + 1
  IN  IF playDrumStep(c, s.singleStepIdxRef * 2).threw THEN s1
      ELSE IF n > 8
      THEN IF c.loop
           THEN [s1 EXCEPT !.singleStepIdxRef = 0, !.h = WrapHist(@)]
           ELSE [s1 EXCEPT !.singleStepIdxRef = n,
                           !.timers = ClearInterval(@, s1.singleTimerRef),
                           !.singleTimerRef = NoTimer,
                           !.isPlayingSingle = FALSE,
                           !.h.done = "single"]
      ELSE [s1 EXCEPT !.singleStepIdxRef = n]

\* the interval callback created by playSingleChordBar; when playDrumStep
\* throws it ends there: the step counter is not advanced and the clock stays
TickSingle(s, id) ==
  LET c == s.timers[id]
      idx == s.singleStepIdxRef % 8
      st == PATTERNS[c.pat].steps[idx + 1]
      mids == VoicingMidis(LookupVoicing(c.key, c.varIdx))
      s1 == EmitTick(s, id, idx, idx = 0 /\ Len(mids) > 0, st # "-", Len(mids) > 0)
      n == s.singleStepIdxRef + 1
  IN  IF playDrumStep(c, s.singleStepIdxRef * 2).threw THEN s1
      ELSE IF n >= 8
      THEN IF c.loop
           THEN [s1 EXCEPT !.singleStepIdxRef = 0, !.h = WrapHist(@)]
           ELSE [s1 EXCEPT !.singleStepIdxRef = n,
                           !.timers = ClearInterval(@, s1.singleTimerRef),
                           !.singleTimerRef = NoTimer,
                           !.isPlayingSingle = FALSE,
                           !.h.done = "single"]
      ELSE [s1 EXCEPT !.singleStepIdxRef = n]

\* variant of TickSequence that tests the end of the sequence with > for >=
TickSequence_LateEnd(s, id) ==
  LET c == s.timers[id]
      idx == s.seqStepIdxRef % 8
      st == PATTERNS[c.pat].steps[idx + 1]
      mids == VoicingMidis(LookupVoicing(c.key, c.varIdx))
      s1 == EmitTick(s, id, idx, idx = 0 /\ Len(mids) > 0, st # "-", Len(mids) > 0)
      n == s.seqStepIdxRef + 1
      s2 == [s1 EXCEPT !.seqStepIdxRef = n,
                       !.timers = ClearInterval(@, s1.seqTimerRef),
                       !.seqTimerRef = NoTimer,
                       !.seqBarIdxRef = @ + 1]
  IN  IF playDrumStep(c, s.seqStepIdxRef * 2).threw THEN s1
      ELSE IF n >= 8
      THEN IF s2.seqBarIdxRef > Len(c.seq)
           THEN IF c.loop
                THEN playSequenceBar([s2 EXCEPT !.seqBarIdxRef = 0, !.h = WrapHist(@)], c, 0)
                ELSE [s2 EXCEPT !.currentBar = -1,
                                !.isPlayingSequence = FALSE,
                                !.h.done = "seq"]
           ELSE playSequenceBar(s2, c, s2.seqBarIdxRef)
      ELSE [s1 EXCEPT !.seqStepIdxRef = n]

\* the interval callback created by playSequenceBar; when playDrumStep
\* throws it ends there: the step counter is not advanced and the clock stays
TickSequence(s, id) ==
  LET c == s.timers[id]
      idx == s.seqStepIdxRef % 8
      st == PATTERNS[c.pat].steps[idx + 1]
      mids == VoicingMidis(LookupVoicing(c.key, c.varIdx))
      s1 == EmitTick(s, id, idx, idx = 0 /\ Len(mids) > 0, st # "-", Len(mids) > 0)
      n == s.seqStepIdxRef + 1
      s2 == [s1 EXCEPT !.seqStepIdxRef = n,
                       !.timers = ClearInterval(@, s1.seqTimerRef),
                       !.seqTimerRef = NoTimer,
                       !.seqBarIdxRef = @ + 1]
  IN  IF playDrumStep(c, s.seqStepIdxRef * 2).threw THEN s1
      ELSE IF n >= 8
      THEN IF s2.seqBarIdxRef >= Len(c.seq)
           THEN IF c.loop
                THEN playSequenceBar([s2 EXCEPT !.seqBarIdxRef = 0, !.h = WrapHist(@)], c, 0)
                ELSE [s2 EXCEPT !.currentBar = -1,
                                !.isPlayingSequence = FALSE,
                                !.h.done = "seq"]
           ELSE playSequenceBar(s2, c, s2.seqBarIdxRef)
      ELSE [s1 EXCEPT !.seqStepIdxRef = n]

Tick ==
  \E id \in DOMAIN timers :
    CommitAs(IF timers[id].mode = "single" THEN TickSingle(St, id)
                                           ELSE TickSequence(St, id), TRUE)

\* ---------------------------------------------------------- start commands
\* variant of PlaySingleBody that leaves the sequence clock alone (line 1191 missing)
PlaySingleBody_KeepsSequenceClock(s, r) ==
  LET s2 == [s EXCEPT !.timers = ClearInterval(@, s.singleTimerRef),
                      !.singleTimerRef = NoTimer]
      s3 == [s2 EXCEPT !.isPlayingSequence = FALSE,
                       !.isPlayingSingle = TRUE,
                       !.currentBar = -1]
  IN  playSingleChordBar(s3, r)

\* variant of PlaySingleBody without setCurrentBar(-1) (line 1196 missing)
PlaySingleBody_KeepsCurrentBar(s, r) ==
  LET s1 == [s EXCEPT !.timers = ClearInterval(@, s.seqTimerRef),
                      !.seqTimerRef = NoTimer]
      s2 == [s1 EXCEPT !.timers = ClearInterval(@, s1.singleTimerRef),
                       !.singleTimerRef = NoTimer]
      s3 == [s2 EXCEPT !.isPlayingSequence = FALSE,
                       !.isPlayingSingle = TRUE]
  IN  playSingleChordBar(s3, r)

\* the part of handlePlaySingle after its awaits, with the values of render r
PlaySingleBody(s, r) ==
  LET s1 == [s EXCEPT !.timers = ClearInterval(@, s.seqTimerRef),
                      !.seqTimerRef = NoTimer]
      s2 == [s1 EXCEPT !.timers = ClearInterval(@, s1.singleTimerRef),
                       !.singleTimerRef = NoTimer]
      s3 == [s2 EXCEPT !.isPlayingSequence = FALSE,
                       !.isPlayingSingle = TRUE,
                       !.currentBar = -1]
  IN  playSingleChordBar(s3, r)

\* variant of PlaySequenceBody without setIsPlayingSingle(false) (line 1261 missing)
PlaySequenceBody_KeepsSingleFlag(s, r) ==
  LET s1 == [s EXCEPT !.timers = ClearInterval(@, s.singleTimerRef),
                      !.singleTimerRef = NoTimer]
      s2 == [s1 EXCEPT !.timers = ClearInterval(@, s1.seqTimerRef),
                       !.seqTimerRef = NoTimer]
      s3 == [s2 EXCEPT !.isPlayingSequence = TRUE,
                       !.seqBarIdxRef = 0]
  IN  playSequenceBar(s3, r, 0)

\* the part of handlePlaySequence after its awaits, with the values of render r
PlaySequenceBody(s, r) ==
  LET s1 == [s EXCEPT !.timers = ClearInterval(@, s.singleTimerRef),
                      !.singleTimerRef = NoTimer]
      s2 == [s1 EXCEPT !.timers = ClearInterval(@, s1.seqTimerRef),
                       !.seqTimerRef = NoTimer]
      s3 == [s2 EXCEPT !.isPlayingSingle = FALSE,
                       !.isPlayingSequence = TRUE,
                       !.seqBarIdxRef = 0]
  IN  playSequenceBar(s3, r, 0)

RemoveAt(q, i) == [j \in 1..(Len(q) - 1) |-> IF j < i THEN q[j] ELSE q[j + 1]]

\* request i has passed its last await: it leaves the pending list and arms
FinishStart(s, i) ==
  LET req == s.pending[i]
      \* a request issued later that is still suspended will run after this one
      s0 == [s EXCEPT !.pending = RemoveAt(@, i),
                      !.h = [@ EXCEPT !.bars = <<>>, !.ticks = 0, !.clean = TRUE,
                                      !.staleWin = req.superseded]]
  IN  IF req.mode = "single" THEN PlaySingleBody(s0, req.r) ELSE PlaySequenceBody(s0, req.r)

\* task i waits at an await: it queues behind the tasks already waiting there
Suspend(s, i, at) ==
  [s EXCEPT !.pending = Append(RemoveAt(s.pending, i),
                               [s.pending[i] EXCEPT !.pc = at])]

\* task i has run to its end
Drop(s, i) == [s EXCEPT !.pending = RemoveAt(@, i)]

IsStart(q) == q.mode \in {"single", "seq"}

\* the start handlers that have not armed yet
Starts(q) == Cardinality({i \in 1..Len(q) : IsStart(q[i])})

\* the states in which the drum context can be constructed in this step: the
\* platform's choice, none to make once the context exists
NewCtxStates == IF drumCtx = "none" THEN CtxStates ELSE {drumCtx}

\* the state record in a step in which the platform constructs an
\* AudioContext in state atConstruction
OnPlatform(s, atConstruction) == [s EXCEPT !.newCtxState = atConstruction]

\* drums.ensure(): create the drum context, await resume() unless it is running
AwaitDrums(s, i) ==
  LET s0 == IF s.drumCtx = "none"
            THEN [s EXCEPT !.drumCtx = s.newCtxState, !.h.drumGraphs = @ + 1]
            ELSE s
  IN  IF s0.drumCtx = "running"
      THEN FinishStart(s0, i)
      ELSE Suspend(s0, i, "drumResume")

\* useSF.ensure() of a start handler past the resume: it waits for the load it
\* begins; a load in flight is not awaited
AwaitInstrument(s, i) ==
  LET name == s.pending[i].r.instrument
  IN  IF AwaitsLoad(s, name)
      THEN Suspend(Ensure(s, name), i, "load")
      ELSE AwaitDrums(Ensure(s, name), i)

\* the playMidi calls a preview or a strum still has to make, one after the
\* other: a call whose ensure() begins a load waits for it, the calls made with
\* no instrument and a load in flight play nothing
PlayOn(s, i) ==
  LET q == s.pending[i]
      name == q.r.instrument
  IN  IF q.left = 0 THEN Drop(s, i)
      ELSE IF AwaitsLoad(s, name) /\ q.left > 1
           THEN Suspend([Ensure(s, name) EXCEPT !.pending[i].left = q.left - 1],
                        i, "load")
           ELSE Drop(Ensure(s, name), i)

\* task i is past the resume() of ensure(): a start handler goes on in its
\* startAudio(); a preview waits for the load it begins and plays its strings
\* after it; the reference tone needs no instrument
EnsureTask(s, i) ==
  LET q == s.pending[i]
      name == q.r.instrument
  IN  IF IsStart(q) THEN AwaitInstrument(s, i)
      ELSE IF AwaitsLoad(s, name) /\ q.left > 0
           THEN Suspend(Ensure(s, name), i, "load")
           ELSE Drop(Ensure(s, name), i)

\* ensure() of task i: await resume() unless the context is running
AwaitAudio(s, i) ==
  IF s.sfCtx # "running"
  THEN Suspend(s, i, "sfResume")
  ELSE EnsureTask(s, i)

\* a click on a play button: the handler runs up to its first pending await
IssueStart(s, mode) ==
  LET r == IF mode = "single" THEN RenderSingle(s) ELSE RenderSequence(s)
      older == [j \in 1..Len(s.pending) |-> [s.pending[j] EXCEPT !.superseded = TRUE]]
      s1 == [s EXCEPT !.pending = Append(older, [mode |-> mode, pc |-> "new",
                                                r |-> r, superseded |-> FALSE,
                                                left |-> 0])]
  IN  AwaitAudio(s1, Len(s1.pending))

\* play button of the single-chord panel (disabled while the sequence plays)
handlePlaySingle ==
  /\ ~isPlayingSequence
  /\ Starts(pending) < MaxPending
  /\ \E c \in NewCtxStates : Commit(IssueStart(OnPlatform(St, c), "single"))

\* play button of the sequence panel (disabled while the single chord plays)
handlePlaySequence ==
  /\ ~isPlayingSingle
  /\ Starts(pending) < MaxPending
  /\ \E c \in NewCtxStates : Commit(IssueStart(OnPlatform(St, c), "seq"))

\* the tasks waiting in resume() of one context go on in the order in which
\* they called it: the pending resume promises of a context settle together
RECURSIVE ResumeAll(_, _)
ResumeAll(s, at) ==
  LET waiting == {i \in 1..Len(s.pending) : s.pending[i].pc = at}
  IN  IF waiting = {} THEN s
      ELSE LET i == CHOOSE k \in waiting : \A j \in waiting : k <= j
           IN  ResumeAll(IF at = "sfResume" THEN EnsureTask(s, i)
                                            ELSE AwaitDrums(s, i), at)

\* a context starts running
ResumeResolved ==
  \E at \in {"sfResume", "drumResume"} :
    /\ \E i \in 1..Len(pending) : pending[i].pc = at
    /\ \E c \in NewCtxStates :
         CommitAs(IF at = "sfResume"
                THEN ResumeAll([OnPlatform(St, c) EXCEPT !.sfCtx = "running"], at)
                ELSE ResumeAll([OnPlatform(St, c) EXCEPT !.drumCtx = "running"], at),
                  FALSE)

\* resume() of a context is rejected: every task waiting in it is rejected at
\* its await and runs no further (the preview logs the error); the context
\* stays as it was
ResumeRejected ==
  \E at \in {"sfResume", "drumResume"} :
    /\ \E i \in 1..Len(pending) : pending[i].pc = at
    /\ CommitAs([St EXCEPT !.pending = SelectSeq(@, LAMBDA q : q.pc # at)], FALSE)

\* Soundfont.instrument() settles; ensure() clears loadingRef and returns to
\* the task that began the load, if that task has more to do
LoadDone(s, ok) ==
  LET s1 == [s EXCEPT !.inst = IF ok THEN "loaded" ELSE "none",
                      !.loading = FALSE, !.h.loads = @ - 1]
      waiting == {i \in 1..Len(s.pending) : s.pending[i].pc = "load"}
  IN  IF waiting = {} THEN s1
      ELSE LET i == CHOOSE k \in waiting : TRUE
           IN  IF IsStart(s1.pending[i]) THEN AwaitDrums(s1, i) ELSE PlayOn(s1, i)

LoadResolved ==
  /\ loading /\ sfCtx = "running"
  /\ \E c \in NewCtxStates : CommitAs(LoadDone(OnPlatform(St, c), TRUE), FALSE)

\* the load fails: the error is caught and logged inside ensure()
LoadRejected ==
  /\ loading /\ sfCtx = "running"
  /\ \E c \in NewCtxStates : CommitAs(LoadDone(OnPlatform(St, c), FALSE), FALSE)

\* ------------------------------------------------- previews and the tone
\* useEffect([chordKey, variantIdx, instrument]): after the cleanup a new
\* preview calls startAudio() and plays the fretted strings, unless a clock
\* is armed
PreviewEffect(s) ==
  LET s0 == CancelPreview(s)
      task == Waiting("preview", "new", s0.instrument,
                      PreviewStrings(LookupVoicing(s0.chordKey, s0.variantIdx)))
  IN  IF s0.singleTimerRef # NoTimer \/ s0.seqTimerRef # NoTimer
      THEN s0
      ELSE AwaitAudio([s0 EXCEPT !.pending = Append(@, task)], Len(s0.pending) + 1)

\* chord select of the single panel: setChordKey(v); setVariantIdx(0)
setChordKey ==
  \E v \in SingleChordInputs \ {chordKey} :
    /\ Len(pending) <= MaxPending
    /\ Commit(PreviewEffect([St EXCEPT !.chordKey = v, !.variantIdx = 0]))

\* voicing select of the single panel: one option per variant of the chord
setVariantIdx ==
  \E v \in (SingleVariantInputs \cap (0..(Len(CHORDS[chordKey]) - 1))) \ {variantIdx} :
    /\ Len(pending) <= MaxPending
    /\ Commit(PreviewEffect([St EXCEPT !.variantIdx = v]))

\* instrument select
setInstrument ==
  \E name \in InstrumentInputs \ {instrument} :
    /\ Len(pending) <= MaxPending
    /\ Commit(PreviewEffect([St EXCEPT !.instrument = name]))

\* a reference-tone button: startSine awaits ensure() and starts an oscillator
startSine ==
  /\ Len(pending) <= MaxPending
  /\ Commit(AwaitAudio([St EXCEPT !.pending =
                          Append(@, Waiting("sine", "new", instrument, 0))],
                       Len(pending) + 1))

\* ----------------------------------------------------------- stop commands
NotSuperseded(q) == [j \in 1..Len(q) |-> [q[j] EXCEPT !.superseded = FALSE]]

StopSingle(s) ==
  [s EXCEPT !.timers = ClearInterval(@, s.singleTimerRef),
            !.singleTimerRef = NoTimer,
            !.isPlayingSingle = FALSE]

\* variant of StopSequence that drops the handle without clearInterval
StopSequence_NoClear(s) ==
  [s EXCEPT !.seqTimerRef = NoTimer,
            !.currentBar = -1,
            !.isPlayingSequence = FALSE]

StopSequence(s) ==
  [s EXCEPT !.timers = ClearInterval(@, s.seqTimerRef),
            !.seqTimerRef = NoTimer,
            !.currentBar = -1,
            !.isPlayingSequence = FALSE]

StopHist(s, step) ==
  [s EXCEPT !.pending = NotSuperseded(@),
            !.h = [@ EXCEPT !.stoppedAt = step, !.staleWin = FALSE, !.done = "none"]]

\* stop button of the single-chord panel (disabled unless isPlayingSingle)
handleStopSingle ==
  /\ isPlayingSingle
  /\ Commit(StopHist(StopSingle(St), singleStepIdxRef))

\* stop button of the sequence panel (disabled unless isPlayingSequence)
handleStopSequence ==
  /\ isPlayingSequence
  /\ Commit(StopHist(StopSequence(St), seqStepIdxRef))

\* ------------------------------------------- settings and restart effects
\* the sequence effect of the render s throws: it calls playSequenceBar with a
\* bar index the list does not have; an effect that throws unmounts the
\* component as a render that throws does
EffectThrows(s) ==
  /\ s.isPlayingSequence /\ s.seqTimerRef # NoTimer
  /\ (s.seqBarIdxRef < 0 \/ s.seqBarIdxRef >= Len(s.sequence))

\* variant of RestartEffects that re-arms without clearing the running interval
RestartEffects_NoClear(s) ==
  LET e1 == IF s.isPlayingSingle /\ s.singleTimerRef # NoTimer
            THEN playSingleChordBar(
                   [s EXCEPT !.singleTimerRef = NoTimer,
                             !.h = [@ EXCEPT !.clean = FALSE, !.bars = <<>>, !.ticks = 0]],
                   RenderSingle(s))
            ELSE s
      e2 == IF e1.isPlayingSequence /\ e1.seqTimerRef # NoTimer
            THEN playSequenceBar(
                   [e1 EXCEPT !.seqTimerRef = NoTimer,
                              !.h = [@ EXCEPT !.clean = FALSE, !.bars = <<>>, !.ticks = 0]],
                   RenderSequence(e1), e1.seqBarIdxRef)
            ELSE e1
  IN  IF EffectThrows(e1) THEN [e2 EXCEPT !.mounted = FALSE] ELSE e2

\* useEffect([bpm, patternId]) for the single chord, then for the sequence,
\* both with the values of the render that follows the change; the step
\* unmounts the component when the sequence effect throws
RestartEffects(s) ==
  LET e1 == IF s.isPlayingSingle /\ s.singleTimerRef # NoTimer
            THEN playSingleChordBar(
                   [s EXCEPT !.timers = ClearInterval(@, s.singleTimerRef),
                             !.singleTimerRef = NoTimer,
                             !.h = [@ EXCEPT !.clean = FALSE, !.bars = <<>>, !.ticks = 0]],
                   RenderSingle(s))
            ELSE s
      e2 == IF e1.isPlayingSequence /\ e1.seqTimerRef # NoTimer
            THEN playSequenceBar(
                   [e1 EXCEPT !.timers = ClearInterval(@, e1.seqTimerRef),
                              !.seqTimerRef = NoTimer,
                              !.h = [@ EXCEPT !.clean = FALSE, !.bars = <<>>, !.ticks = 0]],
                   RenderSequence(e1), e1.seqBarIdxRef)
            ELSE e1
  IN  IF EffectThrows(e1) THEN [e2 EXCEPT !.mounted = FALSE] ELSE e2

setBpm ==
  \E b \in BPMs \ {bpm} :
    Commit(RestartEffects([St EXCEPT !.bpm = b]))

setPatternId ==
  \E p \in PatternIds \ {patternId} :
    Commit(RestartEffects([St EXCEPT !.patternId = p]))

setLoopSingle ==
  \E checked \in BOOLEAN \ {loopSingle} :
    Commit([St EXCEPT !.loopSingle = checked])

setLoopSequence ==
  \E checked \in BOOLEAN \ {loopSequence} :
    Commit([St EXCEPT !.loopSequence = checked])

\* bass pattern select
setBassPattern ==
  \E p \in BassPatternInputs \ {bassPattern} :
    Commit([St EXCEPT !.bassPattern = p])

\* the rhythm-section controls: no restart effect depends on them
setDrumsEnabled ==
  \E checked \in BOOLEAN \ {drumsEnabled} :
    Commit([St EXCEPT !.drumsEnabled = checked])

setDrumPatternId ==
  \E d \in DrumInputs \ {drumPatternId} :
    Commit([St EXCEPT !.drumPatternId = d])

setBassEnabled ==
  \E checked \in BOOLEAN \ {bassEnabled} :
    Commit([St EXCEPT !.bassEnabled = checked])

\* -------------------------------------------------------- sequence editing
\* "+ Adicionar compasso": append a bar with the last bar's chord
appendBar ==
  /\ Len(sequence) < MaxSeqLen
  /\ Commit([St EXCEPT !.sequence =
        Append(@, [key |-> sequence[Len(sequence)].key, varIdx |-> 0,
                   degreeIdx |-> -1])])

DefaultBar == [key |-> "C", varIdx |-> 0, degreeIdx |-> 0]

\* variant of OrDefaultBar that stores the spliced list as it is
OrDefaultBar_AsIs(copy) ==
  copy

\* copy.length ? copy : [{key:'C', varIdx:0, degreeIdx:0}]
OrDefaultBar(copy) ==
  IF Len(copy) > 0 THEN copy ELSE <<DefaultBar>>

\* the "-" button of bar idx: splice it out; an empty result becomes [C]
removeBarAt(idx) ==
  Commit([St EXCEPT !.sequence = OrDefaultBar(RemoveAt(sequence, idx))])

\* any bar removed in the editor at rest; the specifications of the players
\* remove at the end of the list, removeBarAt(Len(sequence))
removeBar ==
  \E idx \in RemoveInputs(sequence) : removeBarAt(idx)

\* getAlternativesForDegree: the symbols of the degree's quality and of its
\* alternative qualities in the current key (all map to a dictionary key).
\* A progression that is a name the table inherits passes !prog, and
\* prog.degrees.length throws, prog.degrees being undefined
getAlternativesForDegree(s, degreeIdx) ==
  IF ~Truthy(PROGRESSIONS, s.progression) THEN <<>>
  ELSE IF s.progression \notin DOMAIN PROGRESSIONS THEN TypeError
  ELSE IF degreeIdx >= Len(PROGRESSIONS[s.progression]) THEN <<>>
  ELSE LET deg == PROGRESSIONS[s.progression][degreeIdx + 1]
           root == nameForPc(toPc(s.key) + deg.semitones)
           alternatives ==
             <<root \o QualitySuffix(deg.quality)>> \o
             [i \in 1..Len(deg.alternatives) |->
                root \o QualitySuffix(deg.alternatives[i])]
       IN  SelectSeq(alternatives,
                     LAMBDA sym : Truthy(CHORDS, mapSymbolToDictKey(sym)))

\* getAlternativesForDegree(degreeIdx) in the renders of the keys and presets
\* selected, each alternative with the dictionary key its button stores
AlternativeButtons ==
  [t \in TonicInputs, p \in ProgressionInputs |->
     [d \in 1..7 |->
        LET alternatives == getAlternativesForDegree([key |-> t, progression |-> p], d - 1)
        IN  [a \in 1..Len(alternatives) |->
               [alt |-> alternatives[a],
                altKey |-> mapSymbolToDictKey(alternatives[a])]]]]

\* the alternatives offered for a bar of the editor
BarAlternatives(s, it) ==
  IF it.degreeIdx >= 0
  THEN AlternativeButtons[s.key, s.progression][it.degreeIdx + 1]
  ELSE <<>>

hasAlternatives(s, it) == Len(BarAlternatives(s, it)) > 1

\* chord select of bar idx, shown for a bar without alternatives
changeChord ==
  \E idx \in EditInputs(sequence), k \in ChordInputs :
    /\ ~hasAlternatives(St, sequence[idx])
    /\ sequence[idx].key # k
    /\ Commit([St EXCEPT !.sequence[idx].key = k])

\* one of the alternative buttons of bar idx
chooseAlternative ==
  \E idx \in EditInputs(sequence) :
    /\ hasAlternatives(St, sequence[idx])
    /\ \E a \in AlternativeInputs \cap 1..Len(BarAlternatives(St, sequence[idx])) :
          LET altKey == BarAlternatives(St, sequence[idx])[a].altKey
          IN  /\ altKey # sequence[idx].key
              /\ Commit([St EXCEPT !.sequence[idx].key = altKey])

\* variant select of bar idx: its options are the variants of the bar's chord
\* ("key in CHORDS" holds of an inherited name too, whose variants are
\* undefined: the editor throws and renders no option)
changeVariantAt(idx) ==
  \E v \in VariantInputs :
    /\ sequence[idx].key \in DOMAIN CHORDS \/ ~Truthy(CHORDS, sequence[idx].key)
    /\ v < Len(CHORDS[IF sequence[idx].key \in DOMAIN CHORDS
                      THEN sequence[idx].key ELSE "C"])
    /\ sequence[idx].varIdx # v
    /\ Commit([St EXCEPT !.sequence[idx].varIdx = v])

changeVariant ==
  \E idx \in EditInputs(sequence) : changeVariantAt(idx)

\* symbols.map(...) of buildSequenceFromProgression(key, progression), for
\* the keys and presets selected
ExpandedSequence ==
  [t \in TonicInputs, p \in ProgressionInputs |->
     SeqItems(buildSequenceFromProgression(t, p))]

\* key select: the sequence is rebuilt from the progression in the new key
handleKeyChange ==
  \E newKey \in TonicInputs \ {key} :
    Commit([St EXCEPT !.key = newKey,
                      !.sequence = ExpandedSequence[newKey, progression]])

\* progression select: the sequence is rebuilt from the new preset
handleProgressionChange ==
  \E newProg \in ProgressionInputs \ {progression} :
    Commit([St EXCEPT !.progression = newProg,
                      !.sequence = ExpandedSequence[key, newProg]])

\* ------------------------------------------------- the emissions of a tick
\* the characters of a dictionary key
KeyChars(k) ==
  CHOOSE cs \in {<<r>> \o q : r \in {"A", "B", "C", "D", "E", "F", "G"},
                              q \in {<<>>, <<"m">>, <<"7">>, <<"m", "7">>,
                                     <<"m", "a", "j", "7">>, <<"d", "i", "m">>}} :
    Str(cs) = k

MinOf(S) == CHOOSE m \in S : \A n \in S : m <= n

\* variant of findRootMidi that takes the lowest pitch whatever the root
findRootMidi_LowestOfAll(midis, rootName) ==
  MinOf({midis[i] : i \in 1..Len(midis)})

\* findRootMidi: the lowest pitch of the root's pitch class, else the lowest
findRootMidi(midis, rootName) ==
  LET targetPc == toIndex(rootName)
      all == {midis[i] : i \in 1..Len(midis)}
      candidates == {m \in all : ((m % 12) + 12) % 12 = targetPc}
  IN  IF candidates # {} THEN MinOf(candidates) ELSE MinOf(all)

\* a call of playMidi or playSample: the track, the string of a strum note
\* (-1 otherwise) and the pitch (-1 for a drum sample)
Event(kind, string, midi) == [kind |-> kind, string |-> string, midi |-> midi]

\* playRootHit(voicing, rootName): no call for a voicing without a sounding
\* string, else one playMidi call with the pitch findRootMidi selects
playRootHit(voicing, rootName) ==
  IF Len(VoicingMidis(voicing)) = 0 THEN <<>>
  ELSE <<Event("root", -1, findRootMidi(VoicingMidis(voicing), rootName))>>

\* an emission call suspended at "await ensure()"; a strum note carries the
\* strings the loop of playChordStrum has still to visit
Task(ev, rest) == [ev |-> ev, rest |-> rest]

\* the iteration of playChordStrum's loop that reaches its playMidi call:
\* muted strings are skipped
StrumTask(voicing, strings) ==
  LET sounding == SelectSeq(strings, LAMBDA x : voicing[x + 1] # X)
  IN  IF sounding = <<>> THEN <<>>
      ELSE LET x == Head(sounding)
           IN  <<Task(Event("strum", x, TUNING_MIDI[x + 1] + voicing[x + 1]),
                      Tail(sounding))>>

\* variant of playBassNote that plays the pitch in the octave of the root
playBassNote_NoOctaveDrop(r, rootMidi, pattern, stepIdx) ==
  IF r.bassEnabled /\ BassShouldPlay(pattern, stepIdx % 8)
  THEN <<Task(Event("bass", -1, rootMidi + BassOffset(pattern, stepIdx % 8)), <<>>)>>
  ELSE <<>>

\* playBassNote of the render r: at most one playMidi call
playBassNote(r, rootMidi, pattern, stepIdx) ==
  IF r.bassEnabled /\ BassShouldPlay(pattern, stepIdx % 8)
  THEN <<Task(Event("bass", -1, rootMidi + BassOffset(pattern, stepIdx % 8) - 12), <<>>)>>
  ELSE <<>>

\* variant of StrumOrder that walks every stroke from the low string up
StrumOrder_AlwaysDown(isDown) ==
  <<0, 1, 2, 3, 4, 5>>

\* const order = isDown ? [0,1,2,3,4,5] : [5,4,3,2,1,0]
StrumOrder(isDown) ==
  IF isDown THEN <<0, 1, 2, 3, 4, 5>> ELSE <<5, 4, 3, 2, 1, 0>>

\* the interval callback up to its return: every emission call it makes runs
\* to its first await, in the order of the calls; a playDrumStep that throws
\* ends the callback before playBassNote
SyncCalls(c) ==
  LET voicing == LookupVoicing(c.key, c.varIdx)
      rootName == parseChordSymbol(KeyChars(c.key)).root
      idx == c.step % 8
      st == PATTERNS[c.pat].steps[idx + 1]
      mids == VoicingMidis(voicing)
      drum == playDrumStep(c, c.step * 2)
      samples == drum.samples
  IN  (IF idx = 0 /\ Len(mids) > 0
       THEN <<Task(Event("root", -1, findRootMidi(mids, rootName)), <<>>)>>
       ELSE <<>>) \o
      (IF st # "-"
       THEN StrumTask(voicing, StrumOrder(st = "D"))
       ELSE <<>>) \o
      [i \in 1..Len(samples) |-> Task(Event(samples[i], -1, -1), <<>>)] \o
      (IF ~drum.threw /\ Len(mids) > 0
       THEN playBassNote(c, findRootMidi(mids, rootName), c.bassPattern, c.step)
       ELSE <<>>)

\* the emission call of event ev fails: its promise is rejected
Fails(ev, fail) == ev.kind = fail.kind /\ ev.string = fail.string

\* The microtasks after the callback, first in first out.  The head goes on
\* after its await and issues its event to the backend, or fails.  A strum
\* note that was issued lets playChordStrum go on to the next string, whose
\* call joins the end of the queue; a strum note that failed rejects
\* playChordStrum, which ends there.
RECURSIVE RunMicrotasks(_, _, _, _)
RunMicrotasks(queue, issued, voicing, fail) ==
  IF queue = <<>> THEN issued
  ELSE LET t == Head(queue)
           ok == ~Fails(t.ev, fail)
           next == IF t.ev.kind = "strum" /\ ok
                   THEN StrumTask(voicing, t.rest) ELSE <<>>
       IN  RunMicrotasks(Tail(queue) \o next,
                         IF ok THEN Append(issued, t.ev) ELSE issued,
                         voicing, fail)

\* the events one tick issues to the backend, in order
TickEmissions(c) ==
  RunMicrotasks(SyncCalls(c), <<>>, LookupVoicing(c.key, c.varIdx), c.fail)

NoFailure == [kind |-> "none", string |-> -1]

\* playChordStrum(voicing, accentMap, isDown, stepIdx) run to its end: the
\* playMidi calls it makes, in order
playChordStrum(voicing, isDown, fail) ==
  RunMicrotasks(StrumTask(voicing, StrumOrder(isDown)), <<>>, voicing, fail)

FailInputs ==
  {NoFailure, [kind |-> "root", string |-> -1], [kind |-> "strum", string |-> 1],
   [kind |-> "strum", string |-> 5], [kind |-> "kick", string |-> -1],
   [kind |-> "bass", string |-> -1]}

\* the ticks applied: two chords, two strum patterns, every step of the bar,
\* the loop option on and off
TickInputs ==
  {[op |-> "tick", key |-> k, varIdx |-> 0, pat |-> p, step |-> i, loop |-> l,
    drumsEnabled |-> d, drumPatternId |-> "rock",
    bassEnabled |-> b, bassPattern |-> bp, fail |-> f] :
     k \in {"C", "G"}, p \in {"down8", "folk1"}, i \in 0..7, l \in BOOLEAN,
     d \in BOOLEAN, b \in BOOLEAN, bp \in {"root-fifth", "swing"},
     f \in FailInputs}

\* the application at rest with the controls set as in the tick input c, both
\* contexts running and the instrument loaded
TickControls(c) ==
  [ bpm |-> 92, patternId |-> c.pat, loopSingle |-> c.loop,
    loopSequence |-> TRUE, sequence |-> initialSeq,
    drumsEnabled |-> c.drumsEnabled, drumPatternId |-> c.drumPatternId,
    bassEnabled |-> c.bassEnabled, bassPattern |-> c.bassPattern,
    chordKey |-> c.key, variantIdx |-> c.varIdx, instrument |-> InitInstrument,
    key |-> <<"C">>, progression |-> "I-V-vi-IV",
    currentBar |-> -1, isPlayingSingle |-> FALSE, isPlayingSequence |-> FALSE,
    mounted |-> TRUE,
    singleTimerRef |-> NoTimer, singleStepIdxRef |-> 0,
    seqTimerRef |-> NoTimer, seqStepIdxRef |-> 0, seqBarIdxRef |-> 0,
    timers |-> EmptyTimers, pending |-> <<>>,
    sfCtx |-> "running", inst |-> "loaded", loading |-> FALSE,
    drumCtx |-> "running", currentInstrumentRef |-> InitInstrument,
    call |-> c, ret |-> NoRet, h |-> [InitHist EXCEPT !.drumGraphs = 1],
    newCtxState |-> "none" ]

\* the single-chord bar of these controls, armed by handlePlaySingle, when its
\* first c.step ticks have run
BarAtStep(c) ==
  [PlaySingleBody(TickControls(c), RenderSingle(TickControls(c)))
     EXCEPT !.singleStepIdxRef = c.step]

\* the variables have the values of the state record s
Holds(s) ==
  /\ bpm = s.bpm /\ patternId = s.patternId
  /\ loopSingle = s.loopSingle /\ loopSequence = s.loopSequence
  /\ sequence = s.sequence /\ currentBar = s.currentBar
  /\ drumsEnabled = s.drumsEnabled /\ drumPatternId = s.drumPatternId
  /\ bassEnabled = s.bassEnabled /\ bassPattern = s.bassPattern
  /\ chordKey = s.chordKey /\ variantIdx = s.variantIdx
  /\ instrument = s.instrument
  /\ currentInstrumentRef = s.currentInstrumentRef
  /\ key = s.key /\ progression = s.progression
  /\ isPlayingSingle = s.isPlayingSingle
  /\ isPlayingSequence = s.isPlayingSequence
  /\ mounted = s.mounted
  /\ singleTimerRef = s.singleTimerRef
  /\ singleStepIdxRef = s.singleStepIdxRef
  /\ seqTimerRef = s.seqTimerRef /\ seqStepIdxRef = s.seqStepIdxRef
  /\ seqBarIdxRef = s.seqBarIdxRef
  /\ timers = s.timers /\ pending = s.pending
  /\ sfCtx = s.sfCtx /\ inst = s.inst /\ loading = s.loading
  /\ drumCtx = s.drumCtx /\ call = s.call /\ ret = s.ret
  /\ h = s.h

\* a single-chord bar in progress, its clock about to tick
InitTick(args) == \E c \in args : Holds(BarAtStep(c))

\* the interval callback of the single-chord bar runs, with the microtasks of
\* its emission calls: it issues the events of the step, advances the step
\* counter and ends the bar after the eighth step unless the bar loops
tickCallback ==
  /\ call.op = "tick" /\ ~ret.done
  /\ singleTimerRef \in DOMAIN timers
  /\ LET c == timers[singleTimerRef]
         tick == [op |-> "tick", key |-> c.key, varIdx |-> c.varIdx,
                  pat |-> c.pat, step |-> singleStepIdxRef, loop |-> c.loop,
                  drumsEnabled |-> c.drumsEnabled,
                  drumPatternId |-> c.drumPatternId,
                  bassEnabled |-> c.bassEnabled, bassPattern |-> c.bassPattern,
                  fail |-> call.fail]
     IN  CommitAs([TickSingle(St, singleTimerRef)
                     EXCEPT !.ret = Returned(TickEmissions(tick))], TRUE)

\* ------------------------------------------------------- function calls
\* the voicing of a bar looked up, for every chord and variant index
VoicingInputs ==
  {[op |-> "voicing", key |-> k, varIdx |-> v] : k \in CHORD_KEYS, v \in 0..MaxVarIdx}

lookupVoicing ==
  /\ call.op = "voicing" /\ ~ret.done
  /\ Commit([St EXCEPT !.ret = Returned(LookupVoicing(call.key, call.varIdx))])

\* the symbols of degree d of preset p in the key of t: the degree's quality
\* first, then its alternative qualities
DegreeSymbols(t, p, d) ==
  LET deg == PROGRESSIONS[p][d]
      root == nameForPc(toPc(t) + deg.semitones)
  IN  <<root \o QualitySuffix(deg.quality)>> \o
      [i \in 1..Len(deg.alternatives) |-> root \o QualitySuffix(deg.alternatives[i])]

\* every symbol the expansion produces in the twelve keys, and five symbols
\* typed otherwise: lower case, the degree sign, a flat root, no note name,
\* a name the dictionary object inherits
SymbolInputs ==
  UNION {UNION {UNION {
    {[op |-> "map", sym |-> DegreeSymbols(CHROMA[t], p, d)[a],
      tonic |-> CHROMA[t], progression |-> p, degree |-> d - 1] :
        a \in 1..Len(DegreeSymbols(CHROMA[t], p, d))} :
      d \in 1..Len(PROGRESSIONS[p])} : p \in ProgressionKeys} : t \in 1..12}
  \cup {[op |-> "map", sym |-> y, tonic |-> <<>>, progression |-> "", degree |-> -1] :
          y \in {<<"c", "m", "7">>, <<"C", "°">>, <<"D", "b", "7">>, <<"H">>,
                 <<"c", "o", "n", "s", "t", "r", "u", "c", "t", "o", "r">>}}

mapSymbol ==
  /\ call.op = "map" /\ ~ret.done
  /\ Commit([St EXCEPT !.ret = Returned(mapSymbolToDictKey(call.sym))])

\* every preset expanded from every tonic of the key select, and two keys the
\* progression select does not offer: one the table does not have and a name
\* it inherits; pc is the position of the tonic in the select (C = 0, ..., B = 11)
BuildInputs ==
  {[op |-> "build", tonicRoot |-> CHROMA[t], pc |-> t - 1, progressionKey |-> p] :
     t \in 1..12, p \in ProgressionKeys \cup {"I-V", "constructor"}}

buildSequence ==
  /\ call.op = "build" /\ ~ret.done
  /\ Commit([St EXCEPT !.ret =
        Returned(buildSequenceFromProgression(call.tonicRoot, call.progressionKey))])

\* a downstroke and an upstroke of every voicing of the dictionary
StrumInputs ==
  UNION {{[op |-> "strum", key |-> k, varIdx |-> v - 1, voicing |-> CHORDS[k][v],
           isDown |-> d] : v \in 1..Len(CHORDS[k]), d \in BOOLEAN} : k \in CHORD_KEYS}

strumChord ==
  /\ call.op = "strum" /\ ~ret.done
  /\ Commit([St EXCEPT !.ret =
        Returned(playChordStrum(call.voicing, call.isDown, NoFailure))])

\* the root hit of every voicing of the dictionary, for each of the twelve
\* root names; pc is the pitch class of the root name (C = 0, ..., B = 11)
RootInputs ==
  UNION {{[op |-> "root", key |-> k, voicing |-> CHORDS[k][v],
           rootName |-> CHROMA[n], pc |-> n - 1] :
             v \in 1..Len(CHORDS[k]), n \in 1..12} : k \in CHORD_KEYS}

rootHit ==
  /\ call.op = "root" /\ ~ret.done
  /\ Commit([St EXCEPT !.ret = Returned(playRootHit(call.voicing, call.rootName))])

\* the options of the bass-pattern select, and an identifier that is none
BassPatternIds ==
  {"steady", "root-fifth", "octave", "walking", "jazz-walk", "arpeggio", "swing",
   "bossa", "reggae", "disco", "funk", "rock", "blues", "latin", "country",
   "metal", "punk", "hiphop", "trap", "dnb", "techno", "house", "dubstep", "ska"}

\* a bass note asked for at every step of two bars, for two roots
BassInputs ==
  {[op |-> "bass", bassEnabled |-> b, rootMidi |-> m, pattern |-> p, stepIdx |-> i] :
     b \in BOOLEAN, m \in {40, 48}, p \in BassPatternIds \cup {"tango"}, i \in 0..15}

\* the playMidi call of the task, if any
TaskEvents(tasks) == [i \in 1..Len(tasks) |-> tasks[i].ev]

bassNote ==
  /\ call.op = "bass" /\ ~ret.done
  /\ Commit([St EXCEPT !.ret =
        Returned(TaskEvents(playBassNote(call, call.rootMidi, call.pattern, call.stepIdx)))])

\* ----------------------------------------------------------- specifications
\* start, stop, tempo and sequence-loop commands in any interleaving with the
\* ticks and with the backend, with instrument loads that fail while no clock
\* is armed
Next ==
  \/ handlePlaySingle
  \/ handlePlaySequence
  \/ ResumeResolved
  \/ LoadResolved
  \/ timers = EmptyTimers /\ LoadRejected
  \/ handleStopSingle
  \/ handleStopSequence
  \/ Tick
  \/ setBpm
  \/ setLoopSequence

Spec == Init /\ [][Next]_vars

\* start and stop commands with the loop options switched at any time
NextLoop ==
  \/ handlePlaySingle
  \/ handlePlaySequence
  \/ ResumeResolved
  \/ LoadResolved
  \/ handleStopSingle
  \/ handleStopSequence
  \/ Tick
  \/ setLoopSingle
  \/ setLoopSequence

SpecLoop == Init /\ [][NextLoop]_vars

\* the sequence player with bars appended and removed at any time, at the
\* end of the list: what a bar plays does not depend on its place
NextSequence ==
  \/ handlePlaySequence
  \/ ResumeResolved
  \/ LoadResolved
  \/ handleStopSequence
  \/ Tick
  \/ setLoopSequence
  \/ appendBar
  \/ removeBarAt(Len(sequence))

SpecSequence == Init /\ [][NextSequence]_vars

\* the single-chord player under every rhythm pattern
NextSingle ==
  \/ handlePlaySingle
  \/ ResumeResolved
  \/ LoadResolved
  \/ handleStopSingle
  \/ Tick
  \/ setPatternId
  \/ setLoopSingle

SpecSingle == Init /\ [][NextSingle]_vars

\* tempo changes while bars are removed from the sequence and the chord and
\* the voicing of the single panel are chosen
NextRestart ==
  \/ handlePlaySingle
  \/ handlePlaySequence
  \/ ResumeResolved
  \/ LoadResolved
  \/ Tick
  \/ setBpm
  \/ removeBarAt(Len(sequence))
  \/ setChordKey
  \/ setVariantIdx

SpecRestart == Init /\ [][NextRestart]_vars

\* both bar players with the drum pattern and the drum track switched
NextDrums ==
  \/ handlePlaySingle
  \/ handlePlaySequence
  \/ ResumeResolved
  \/ LoadResolved
  \/ handleStopSingle
  \/ Tick
  \/ setDrumsEnabled
  \/ setDrumPatternId

SpecDrums == Init /\ [][NextDrums]_vars

\* the sequence player while the bars are edited
NextMutation ==
  \/ handlePlaySequence
  \/ ResumeResolved
  \/ LoadResolved
  \/ Tick
  \/ isPlayingSequence /\ chooseAlternative
  \/ isPlayingSequence /\ changeVariantAt(1)
  \/ isPlayingSequence /\ removeBarAt(Len(sequence))

SpecMutation == Init /\ [][NextMutation]_vars

\* the sequence player while the track controls are switched
NextTracks ==
  \/ handlePlaySequence
  \/ ResumeResolved
  \/ LoadResolved
  \/ Tick
  \/ isPlayingSequence /\ setDrumsEnabled
  \/ isPlayingSequence /\ setDrumPatternId
  \/ isPlayingSequence /\ setBassEnabled
  \/ isPlayingSequence /\ setBassPattern

SpecTracks == Init /\ [][NextTracks]_vars

\* the start commands, the previews and the reference tone against a backend
\* whose resume and load may fail
NextBackend ==
  \/ handlePlaySingle
  \/ handlePlaySequence
  \/ ResumeResolved
  \/ ResumeRejected
  \/ LoadResolved
  \/ LoadRejected
  \/ handleStopSingle
  \/ Tick
  \/ setInstrument
  \/ startSine

SpecBackend == Init /\ [][NextBackend]_vars

\* one tick of a bar, for every input of TickInputs
NextEmit == tickCallback

SpecEmit == InitTick(TickInputs) /\ [][NextEmit]_vars

\* the sequence editor and the key and progression selects, nothing playing
NextEdit ==
  \/ appendBar
  \/ removeBar
  \/ changeChord
  \/ chooseAlternative
  \/ changeVariant
  \/ handleKeyChange
  \/ handleProgressionChange

SpecEdit == Init /\ [][NextEdit]_vars

\* one voicing lookup, for every input of VoicingInputs
NextVoicing == lookupVoicing

SpecVoicing == InitCall(VoicingInputs) /\ [][NextVoicing]_vars

\* one symbol mapped to a dictionary key, for every input of SymbolInputs
NextSymbols == mapSymbol

SpecSymbols == InitCall(SymbolInputs) /\ [][NextSymbols]_vars

\* one preset expanded from one tonic, for every input of BuildInputs
NextBuild == buildSequence

SpecBuild == InitCall(BuildInputs) /\ [][NextBuild]_vars

\* one strum, for every input of StrumInputs
NextStrum == strumChord

SpecStrum == InitCall(StrumInputs) /\ [][NextStrum]_vars

\* one root hit, for every input of RootInputs
NextRoot == rootHit

SpecRoot == InitCall(RootInputs) /\ [][NextRoot]_vars

\* one bass step, for every input of BassInputs
NextBass == bassNote

SpecBass == InitCall(BassInputs) /\ [][NextBass]_vars

\* start and stop commands where no start command follows a stop: what runs
\* after a stop is what the start commands issued before it left behind
NextStop ==
  \/ h.stoppedAt = -1 /\ handlePlaySingle
  \/ h.stoppedAt = -1 /\ handlePlaySequence
  \/ ResumeResolved
  \/ LoadResolved
  \/ LoadRejected
  \/ handleStopSingle
  \/ handleStopSequence
  \/ Tick

SpecStop == Init /\ [][NextStop]_vars

\* playback left to itself: a start command from rest, then only the clock and
\* the loop option of the mode that plays, with no stop command.  An interval that is not cleared
\* keeps firing, so the ticks are weakly fair
NextFair ==
  \/ ~isPlayingSingle /\ Starts(pending) = 0 /\ handlePlaySingle
  \/ ~isPlayingSequence /\ Starts(pending) = 0 /\ handlePlaySequence
  \/ ResumeResolved
  \/ LoadResolved
  \/ Tick
  \/ isPlayingSingle /\ setLoopSingle
  \/ isPlayingSequence /\ setLoopSequence

SpecFair == Init /\ [][NextFair]_vars /\ WF_vars(Tick)

\* both bar players, one start command at a time, with the tempo and the
\* rhythm pattern changed at any time
NextSteps ==
  \/ Starts(pending) = 0 /\ handlePlaySingle
  \/ Starts(pending) = 0 /\ handlePlaySequence
  \/ ResumeResolved
  \/ LoadResolved
  \/ handleStopSingle
  \/ handleStopSequence
  \/ Tick
  \/ setBpm
  \/ setPatternId

SpecSteps == Init /\ [][NextSteps]_vars

\* ------------------------------------------------------------------ claims
Idle ==
  /\ timers = EmptyTimers
  /\ singleTimerRef = NoTimer /\ seqTimerRef = NoTimer
  /\ ~isPlayingSingle /\ ~isPlayingSequence

UpTo(k) == [i \in 1..k |-> i - 1]

\* a step in which an interval callback ran
TickStep == h'.ticked

\* C1: at most one interval timer is live: the two timer refs are never both
\* armed and every interval the browser still fires is held by one of them.
C1_AtMostOneTimer ==
  /\ Cardinality(DOMAIN timers) <= 1
  /\ ~(singleTimerRef # NoTimer /\ seqTimerRef # NoTimer)
  /\ DOMAIN timers \subseteq ({singleTimerRef, seqTimerRef} \ {NoTimer})

\* a single-chord start that had been overtaken by a sequence start has
\* cancelled the sequence clock and armed its own
W_C1 ==
  /\ h.staleWin /\ pending = <<>>
  /\ singleTimerRef # NoTimer /\ seqTimerRef = NoTimer
  /\ DOMAIN timers = {singleTimerRef}

\* C2: isPlayingSingle and isPlayingSequence are never both true, and while
\* the clock of one mode is armed the other mode is flagged not playing.
C2_ExclusiveModes ==
  /\ ~(isPlayingSingle /\ isPlayingSequence)
  /\ (singleTimerRef # NoTimer => isPlayingSingle /\ ~isPlayingSequence)
  /\ (seqTimerRef # NoTimer => isPlayingSequence /\ ~isPlayingSingle)

\* a sequence start ran while the single chord was playing
W_C2 ==
  /\ h.staleWin /\ pending = <<>>
  /\ seqTimerRef # NoTimer /\ isPlayingSequence /\ ~isPlayingSingle

\* C3: after a stop command, issued at whatever step of the bar, no interval
\* is live, no timer ref is armed and neither mode is flagged as playing
\* (until a start command arms a clock again).
C3_StopLeavesIdle == (h.stoppedAt # -1) => Idle

\* the sequence was stopped in the middle of its second bar
W_C3 == h.stoppedAt = 5 /\ seqStepIdxRef = 5 /\ seqBarIdxRef = 1 /\ Idle

\* C4: both stop handlers are idempotent, and on an idle controller they
\* change nothing: timers, refs, flags and the current bar (-1) stay.
C4_StopIdempotent ==
  /\ StopSingle(StopSingle(St)) = StopSingle(St)
  /\ StopSequence(StopSequence(St)) = StopSequence(St)
  /\ Idle => /\ currentBar = -1
             /\ StopSingle(St) = St
             /\ StopSequence(St) = St

\* idle after a single-chord bar that ran to its end
W_C4 == Idle /\ h.done = "single" /\ StopSequence(St) = St

\* C5: every tick that runs belongs to the interval held by its mode's ref,
\* and whenever setInterval is called every earlier interval has been cleared.
C5_NoStaleTick == h.tickHeld /\ h.liveAtArm = {}

\* two ticks of the sequence clock armed by a tempo restart
W_C5 == ~h.clean /\ Len(h.steps) = 2 /\ seqTimerRef # NoTimer /\ h.tickHeld

\* C6: of two start commands with no stop in between the later-issued one
\* wins: a start that was superseded never arms after the later one has run.
C6_LaterStartWins ==
  ~(h.staleWin /\ pending = <<>> /\ timers # EmptyTimers)

\* C7: a tempo or pattern change while a bar player runs cancels its clock
\* and arms a new one at step 0 with the period of the new tempo, in sequence
\* mode for the bar that was in progress.
C7_RestartOnChange ==
  [][ (bpm' # bpm \/ patternId' # patternId) =>
        /\ (isPlayingSingle /\ singleTimerRef # NoTimer) =>
              /\ singleTimerRef' # NoTimer
              /\ singleTimerRef' \in DOMAIN timers'
              /\ singleStepIdxRef' = 0
              /\ timers'[singleTimerRef'].ms = StepMs(bpm')
              /\ timers'[singleTimerRef'].pat = patternId'
              /\ h'.liveAtArm = {}
        /\ (isPlayingSequence /\ seqTimerRef # NoTimer) =>
              /\ seqTimerRef' # NoTimer
              /\ seqTimerRef' \in DOMAIN timers'
              /\ seqStepIdxRef' = 0
              /\ seqBarIdxRef' = seqBarIdxRef
              /\ timers'[seqTimerRef'].bar = seqBarIdxRef
              /\ timers'[seqTimerRef'].ms = StepMs(bpm')
              /\ timers'[seqTimerRef'].pat = patternId'
              /\ h'.liveAtArm = {} ]_vars

NonRest(pat) == {i \in 0..7 : PATTERNS[pat].steps[i + 1] # "-"}

\* C8: a single-chord clock ticks steps 0..7 in order; a run with loop off
\* ends at the tick of step 7 with the clock cleared and the controller idle,
\* having issued the root hit once (step 0) and a strum at exactly the
\* non-rest steps of its pattern ({0,2,3,5,6,7} for "D - D U - U D U").
C8_SingleBar ==
  /\ singleTimerRef # NoTimer =>
        /\ singleStepIdxRef \in 0..7
        /\ h.steps = UpTo(singleStepIdxRef)
  /\ h.done = "single" =>
        /\ h.steps = UpTo(8)
        /\ h.roots = <<0>>
        /\ h.strums = NonRest(h.pat)
        /\ (h.pat = "folk1" => h.strums = {0, 2, 3, 5, 6, 7})
        /\ Idle

\* a loop-off run of the reggae pattern (rest at step 0) has ended
W_C8 == h.done = "single" /\ h.pat = "reggae" /\ h.strums = {1, 3, 5, 7} /\ Idle

\* C9: with the loop option on, sequence playback never ends by itself: the
\* completion of the last bar wraps to bar 0 and arms a new clock.
C9_LoopNeverEnds ==
  [][ (h.done # "seq" /\ h'.done = "seq") => ~loopSequence ]_vars

\* between ticks of an unrestarted sequence run: the bars started so far are
\* 0..seqBarIdxRef, the steps ticked in the bar are 0..seqStepIdxRef-1
C10_State ==
  /\ (seqTimerRef # NoTimer /\ h.clean) =>
        /\ h.n = Len(timers[seqTimerRef].seq)
        /\ seqBarIdxRef \in 0..(h.n - 1)
        /\ seqStepIdxRef \in 0..7
        /\ h.bars = UpTo(seqBarIdxRef + 1)
        /\ currentBar = seqBarIdxRef
        /\ timers[seqTimerRef].bar = seqBarIdxRef
        /\ h.steps = UpTo(seqStepIdxRef)
        /\ h.ticks = 8 * seqBarIdxRef + seqStepIdxRef
  /\ (h.done = "seq" /\ h.clean) =>
        /\ h.bars = UpTo(h.n)
        /\ h.ticks = 8 * h.n
        /\ Idle /\ currentBar = -1

\* the tick of step 7 of the last bar of an unmutated sequence, loop off, ends
\* the playback
C10_LastTick ==
  ( /\ TickStep
    /\ seqTimerRef # NoTimer /\ h.clean
    /\ timers[seqTimerRef].seq = sequence
    /\ ~timers[seqTimerRef].loop /\ ~loopSequence
    /\ seqBarIdxRef = Len(sequence) - 1 /\ seqStepIdxRef = 7 )
  => (h'.done = "seq" /\ seqTimerRef' = NoTimer /\ ~isPlayingSequence'
      /\ timers' = EmptyTimers /\ h'.ticks = 8 * Len(sequence))

\* C10: the sequence plays bars 0,1,...,n-1 in order, 8 ticks each; with loop
\* off the tick of step 7 of bar n-1 leaves no clock armed, isPlayingSequence
\* false, and 8*n ticks have run.
C10_SequenceOrder == []C10_State /\ [][C10_LastTick]_vars

\* a sequence cut to three bars and played once with loop off has ended after
\* 24 ticks
W_C10 ==
  /\ h.done = "seq" /\ h.clean /\ h.n = 3 /\ Len(sequence) = 3
  /\ h.ticks = 24 /\ h.bars = <<0, 1, 2>> /\ ~loopSequence /\ Idle

\* the steps of the run at which the drum pattern has a kick at slot 2*step
KickSteps(d) ==
  {h.steps[i] : i \in {j \in 1..Len(h.steps) :
                         DRUM_PATTERNS[d].kick[2 * h.steps[j] + 1] = "k"}}

\* C11: the tick of strum step i evaluates the drums at slot 2*i and at no
\* other slot, so no odd slot is triggered; the kick fires exactly at the
\* steps whose slot 2*i holds a kick: steps 0 and 4 of a full bar for a
\* pattern with the kick at slots 0 and 8 only.  The pattern of a clock is
\* one the pattern table has itself, never a name it inherits, so every tick
\* with the drums on evaluates its slot and none ends in playDrumStep.
C11_DrumSlots ==
  /\ DrumPatternIds \cap OBJECT_PROTOTYPE_KEYS = {}
  /\ \A id \in DOMAIN timers :
        /\ timers[id].drumPatternId \in DrumPatternIds
        /\ \A i \in 0..7 : ~playDrumStep(timers[id], 2 * i).threw
  /\ Len(h.slots) = IF h.drumsOn THEN Len(h.steps) ELSE 0
  /\ \A i \in 1..Len(h.slots) : h.slots[i] = 2 * h.steps[i] /\ h.slots[i] % 2 = 0
  /\ h.kicks = IF h.drumsOn THEN KickSteps(h.drumPat) ELSE {}
  /\ (h.drumsOn /\ h.drumPat = "ballad" /\ Len(h.steps) = 8) => h.kicks = {0, 4}

\* a full single-chord bar played over the pattern with kicks at slots 0 and 8
W_C11 ==
  /\ h.done = "single" /\ h.drumsOn /\ h.drumPat = "ballad"
  /\ h.slots = <<0, 2, 4, 6, 8, 10, 12, 14>> /\ h.kicks = {0, 4}

\* the tick of step 7 of the sequence bar in progress
BarEnd == TickStep /\ seqTimerRef # NoTimer /\ seqStepIdxRef = 7

\* after the step a clock is armed for bar b with the chord the list has there
Playing(b) ==
  /\ seqTimerRef' # NoTimer
  /\ timers'[seqTimerRef'].bar = b
  /\ timers'[seqTimerRef'].key = sequence[b + 1].key
  /\ timers'[seqTimerRef'].varIdx = sequence[b + 1].varIdx

\* C12: an edit of the sequence leaves the clock of the bar in progress alone
\* and is in effect when playback next reaches the bar: the bar started at a
\* bar completion is the next bar of the list as it is then (an appended bar
\* is played, a removed bar is not), with the chord and variant it has then.
C12_MutationNextPass ==
  [][ /\ (sequence' # sequence) => timers' = timers
      /\ BarEnd =>
            /\ (seqBarIdxRef + 1 < Len(sequence)) => Playing(seqBarIdxRef + 1)
            /\ (seqBarIdxRef + 1 >= Len(sequence) /\ loopSequence
                   /\ timers[seqTimerRef].loop) => Playing(0) ]_vars

\* C13: a change of a track's enable flag or of the drum pattern is applied
\* no later than the next bar start: the clock of a bar plays with the flags
\* and the pattern the controls had when the bar was started, and a bar
\* started while a track was disabled emits no event of that track.
C13_TrackSettings ==
  /\ \A id \in DOMAIN timers :
        /\ timers[id].drumsEnabled = h.armDrums
        /\ timers[id].bassEnabled = h.armBass
  /\ ~h.armDrums => h.slots = <<>>
  /\ ~h.armBass => h.bassAt = {}

\* a step at which the instrument load fails, resp. a resume() is rejected
LoadFails == LoadRejected

ResumeFails(at) ==
  /\ \E i \in 1..Len(pending) : pending[i].pc = at
  /\ \A i \in 1..Len(pending') : pending'[i].pc # at
  /\ IF at = "sfResume" THEN sfCtx' # "running" ELSE drumCtx' # "running"

\* C14: when the backend fails to initialise (the instrument load fails) or
\* to resume during a start command, the command fails and arms no clock: the
\* handlers that waited for the failed operation are over, and the timer
\* handles, the live intervals and the playing flags are as before the step.
C14_FailedStart ==
  [][ /\ (ResumeFails("sfResume") \/ ResumeFails("drumResume") \/ LoadFails) =>
            UNCHANGED <<singleTimerRef, seqTimerRef, timers,
                        isPlayingSingle, isPlayingSequence>>
      /\ LoadFails => \A i \in 1..Len(pending) :
                          (IsStart(pending[i]) /\ pending[i].pc = "load") =>
                            Starts(pending') < Starts(pending) ]_vars

\* what the tick of the call issues when no emission call fails
Unfailed == TickEmissions([call EXCEPT !.fail = NoFailure])

\* C15: a failed note-emission call drops only its own event: the tick
\* issues every other event it issues when nothing fails, in the same order,
\* and the clock goes on: the step counter has advanced, and the interval is
\* armed unless the tick was the last of a bar that does not loop.
C15_OnlyFailedEventDropped ==
  (call.op = "tick" /\ ret.done) =>
     /\ ret.val = SelectSeq(Unfailed, LAMBDA ev : ~Fails(ev, call.fail))
     /\ singleStepIdxRef = IF call.step < 7 THEN call.step + 1
                           ELSE IF call.loop THEN 0 ELSE 8
     /\ (singleTimerRef # NoTimer) = (call.step < 7 \/ call.loop)
     /\ isPlayingSingle = (call.step < 7 \/ call.loop)

Rank(kind) ==
  CASE kind = "root" -> 0 [] kind = "strum" -> 1 [] kind = "bass" -> 3 [] OTHER -> 2

\* C16: the events of a tick are issued in the order root hit, strum notes,
\* drum hits, bass note: no drum or bass event precedes a strum note.
C16_EmissionOrder ==
  (call.op = "tick" /\ ret.done /\ call.fail = NoFailure) =>
     \A i, j \in 1..Len(ret.val) :
        i < j => Rank(ret.val[i].kind) <= Rank(ret.val[j].kind)

\* C17: the first-time setup of the backend is serialised: at most one
\* instrument load is in flight, and it is the one loadingRef stands for;
\* the drum sampler's audio context is constructed at most once, when the
\* first ensure() finds none, however many start commands are under way.
C17_SetupSerialised ==
  /\ h.loads = IF loading THEN 1 ELSE 0
  /\ h.drumGraphs = IF drumCtx = "none" THEN 0 ELSE 1

\* two start commands under way wait for the drum context one of them
\* constructed, while the instrument load of the preview is in flight
W_C17 ==
  /\ Len(pending) = 2
  /\ \A i \in 1..Len(pending) : pending[i].pc = "drumResume"
  /\ loading /\ h.loads = 1 /\ h.drumGraphs = 1

\* the "-" button of the only bar: the step is a removal from a one-bar list
RemovesOnlyBar ==
  Len(sequence) = 1 /\ removeBar

\* a step that replaces the only bar by a bar of another degree while the key
\* and the progression stay: no edit but the "-" button does that
ReplacesOnlyBar ==
  /\ Len(sequence) = 1 /\ Len(sequence') = 1
  /\ key' = key /\ progression' = progression
  /\ sequence'[1].degreeIdx # sequence[1].degreeIdx

\* C18: the sequence has at least one bar before and after every edit
\* (append, remove, chord, alternative, variant, key, progression), and
\* removing the only bar leaves the one bar [C, variant 0].  The progression
\* expanded is always one of the table, so no expansion throws.
C18_NeverEmpty ==
  [][ /\ Len(sequence) >= 1 /\ Len(sequence') >= 1
      /\ progression \in ProgressionKeys /\ progression' \in ProgressionKeys
      /\ (RemovesOnlyBar \/ ReplacesOnlyBar) => sequence' = <<DefaultBar>> ]_vars

\* in the key of D the bar of degree 0 is D or Dmaj7: this one-bar list is
\* what removing the only bar left
W_C18 ==
  /\ key = <<"D">> /\ progression = "I-V-vi-IV"
  /\ sequence = <<DefaultBar>>

\* a voicing was looked up with an index past the chord's last variant
OutOfRange ==
  call.op = "voicing" /\ ret.done /\ call.varIdx >= Len(CHORDS[call.key])

\* C19 as stated: a lookup with an out-of-range variant index gives variant
\* 0 of the chord.
C19_FallsBackToFirst ==
  OutOfRange => ret.val = CHORDS[call.key][1]

\* C19, amended: a lookup with an out-of-range variant index gives the last
\* variant of the chord (the index is clamped to the number of variants
\* minus one), and an index in range gives the variant of that index.
C19_ClampsToLast ==
  (call.op = "voicing" /\ ret.done) =>
     ret.val = CHORDS[call.key][IF call.varIdx >= Len(CHORDS[call.key])
                                THEN Len(CHORDS[call.key])
                                ELSE call.varIdx + 1]

\* chord C has five variants: index 5 gives the fifth, the barre at fret 8
W_C19 ==
  /\ OutOfRange /\ call.key = "C" /\ call.varIdx = 5
  /\ ret.val = <<8, 10, 10, 9, 8, 8>>

\* the suffixes tried, after the symbol itself, for a parsed quality
FallbackSuffixes(qual) ==
  CASE qual = Maj7 -> {Maj7, <<>>}
    [] qual = <<"m", "7">> -> {<<"m", "7">>, <<"m">>}
    [] qual = <<"7">> -> {<<"7">>, <<>>}
    [] qual = <<"m">> -> {<<"m">>, <<>>}
    [] qual = <<"d", "i", "m">> -> {<<"d", "i", "m">>, <<"m">>, <<>>}
    [] OTHER -> {}

\* C20: mapSymbolToDictKey returns a key of the chord dictionary for every
\* symbol of the expansion (12 tonics, every preset, every degree and
\* alternative): the symbol itself when it is a key, else a key made of the
\* parsed root and a fallback suffix of the parsed quality when there is
\* one, else "C".  No symbol of the expansion is a name the dictionary object
\* inherits; such a name (not a chord) is returned as it is.
C20_TotalMapping ==
  (call.op = "map" /\ ret.done) =>
     LET p == parseChordSymbol(call.sym)
         plausible == {Str(p.root \o x) : x \in FallbackSuffixes(p.qual)} \cap CHORD_KEYS
     IN  /\ call.tonic # <<>> => Str(call.sym) \notin OBJECT_PROTOTYPE_KEYS
         /\ Str(call.sym) \notin OBJECT_PROTOTYPE_KEYS => ret.val \in CHORD_KEYS
         /\ InDict(call.sym) => ret.val = Str(call.sym)
         /\ (~InDict(call.sym) /\ plausible # {}) => ret.val \in plausible
         /\ (~InDict(call.sym) /\ plausible = {}) => ret.val = "C"

\* F#m, the third degree in D: no key has a sharp root, so it maps to "C"
W_C20 ==
  /\ call.op = "map" /\ ret.done
  /\ call.sym = <<"F", "#", "m">> /\ call.tonic = <<"D">>
  /\ ret.val = "C"

\* the twelve pitch classes spelled with sharps
SharpSpelling == <<"C", "C#", "D", "D#", "E", "F", "F#", "G", "G#", "A", "A#", "B">>

\* C21: buildSequenceFromProgression returns one symbol per degree, in degree
\* order: the sharp spelling of pitch class (tonic + semitones) mod 12
\* followed by the quality of the degree; I-IV-V from D gives D, G, A.
\* This holds of every progression of the table, and the call returns
\* normally for them.  No progression of the table is a name the table
\* inherits; for a key that is not a progression the call returns no symbol,
\* or throws if the key is an inherited name.
C21_ExpansionOrder ==
  /\ ProgressionKeys \cap OBJECT_PROTOTYPE_KEYS = {}
  /\ (call.op = "build" /\ ret.done /\ call.progressionKey \in ProgressionKeys) =>
       LET prog == PROGRESSIONS[call.progressionKey]
       IN  /\ ret.val # TypeError
           /\ Len(ret.val) = Len(prog)
           /\ \A i \in 1..Len(prog) :
                 Str(ret.val[i]) =
                   SharpSpelling[((call.pc + prog[i].semitones) % 12) + 1]
                     \o Str(prog[i].quality)
           /\ (call.tonicRoot = <<"D">> /\ call.progressionKey = "I-IV-V") =>
                 ret.val = << <<"D">>, <<"G">>, <<"A">> >>
  /\ (call.op = "build" /\ ret.done /\ call.progressionKey \notin ProgressionKeys) =>
       ret.val = IF call.progressionKey \in OBJECT_PROTOTYPE_KEYS
                 THEN TypeError ELSE <<>>

\* the seven degrees in A: the pitch classes wrap past B, the qualities differ
W_C21 ==
  /\ call.op = "build" /\ ret.done
  /\ call.tonicRoot = <<"A">> /\ call.progressionKey = "I-ii-iii-IV-V-vi-vii"
  /\ [i \in 1..7 |-> Str(ret.val[i])] = <<"A", "Bm", "C#m", "D", "E", "F#m", "G#dim">>

\* the strings of the voicing of the call that are not muted
Sounding == {x \in 0..5 : call.voicing[x + 1] # X}

\* the stroke of the call made in the other direction
OtherStroke == playChordStrum(call.voicing, ~call.isDown, NoFailure)

\* C22: a strum emits one note event for each non-muted string of the
\* voicing and no other, downstroke or upstroke alike (the downstroke from
\* the low string up), and the upstroke visits the strings in the exact
\* reverse of the order of the downstroke.
C22_StrumEvents ==
  (call.op = "strum" /\ ret.done) =>
     /\ Len(ret.val) = Cardinality(Sounding)
     /\ {ret.val[i].string : i \in 1..Len(ret.val)} = Sounding
     /\ \A i \in 1..Len(ret.val) :
           /\ ret.val[i].kind = "strum"
           /\ ret.val[i].midi =
                 TUNING_MIDI[ret.val[i].string + 1] + call.voicing[ret.val[i].string + 1]
     /\ call.isDown =>
           \A i, j \in 1..Len(ret.val) : i < j => ret.val[i].string < ret.val[j].string
     /\ Len(OtherStroke) = Len(ret.val)
     /\ \A i \in 1..Len(ret.val) : OtherStroke[i] = ret.val[Len(ret.val) - i + 1]

\* the upstroke of the open D chord, strings E and A muted: four notes, from
\* the high E string down to the D string
W_C22 ==
  /\ call.op = "strum" /\ ret.done /\ ~call.isDown
  /\ call.voicing = <<X, X, 0, 2, 3, 2>>
  /\ [i \in 1..Len(ret.val) |-> ret.val[i].string] = <<5, 4, 3, 2>>
  /\ [i \in 1..Len(ret.val) |-> ret.val[i].midi] = <<66, 62, 57, 50>>

\* the pitches of the sounding strings of the voicing of the call
SoundingPitches ==
  {TUNING_MIDI[x + 1] + call.voicing[x + 1] : x \in {y \in 0..5 : call.voicing[y + 1] # X}}

\* those of them that have the pitch class of the root of the call
RootPitches == {p \in SoundingPitches : p % 12 = call.pc}

\* C23: for a voicing with a sounding string the root hit plays one pitch:
\* the lowest sounding pitch of the root's pitch class, and the lowest
\* sounding pitch of all when no string sounds the root's pitch class.
C23_RootHitPitch ==
  (call.op = "root" /\ ret.done /\ SoundingPitches # {}) =>
     /\ Len(ret.val) = 1
     /\ ret.val[1].kind = "root"
     /\ LET among == IF RootPitches # {} THEN RootPitches ELSE SoundingPitches
         IN  /\ ret.val[1].midi \in among
             /\ \A p \in among : ret.val[1].midi <= p

\* the C chord with G in the bass (3 3 2 0 1 0): two strings sound a C (48
\* and 60) above the low G (43), and the root hit is the C at 48
W_C23 ==
  /\ call.op = "root" /\ ret.done
  /\ call.voicing = <<3, 3, 2, 0, 1, 0>> /\ call.rootName = <<"C">>
  /\ RootPitches = {48, 60} /\ 43 \in SoundingPitches
  /\ ret.val[1].midi = 48

\* a step at which a pattern is silent
\* the bass patterns as tables: for each of the eight steps of the bar the
\* semitones above the root of the note played, empty at a rest
BassTable ==
  [p \in BassPatternIds |->
     CASE p = "root-fifth" -> <<{0}, {0}, {7}, {0}, {0}, {0}, {7}, {0}>>
       [] p = "octave" -> <<{0}, {12}, {0}, {12}, {0}, {12}, {0}, {12}>>
       [] p = "walking" -> <<{0}, {2}, {4}, {5}, {7}, {5}, {4}, {2}>>
       [] p = "jazz-walk" -> <<{0}, {2}, {3}, {5}, {7}, {9}, {11}, {10}>>
       [] p = "arpeggio" -> <<{0}, {4}, {7}, {12}, {0}, {4}, {7}, {12}>>
       [] p = "swing" -> <<{0}, {}, {7}, {0}, {}, {7}, {0}, {}>>
       [] p = "bossa" -> <<{0}, {}, {7}, {0}, {}, {0}, {}, {}>>
       [] p \in {"reggae", "disco", "metal", "house"} ->
            <<{0}, {}, {0}, {}, {0}, {}, {0}, {}>>
       [] p = "funk" -> <<{0}, {0}, {7}, {0}, {}, {}, {0}, {0}>>
       [] p = "rock" -> <<{0}, {0}, {0}, {0}, {7}, {0}, {0}, {0}>>
       [] p = "blues" -> <<{0}, {0}, {-2}, {0}, {7}, {0}, {5}, {0}>>
       [] p = "latin" -> <<{0}, {7}, {0}, {7}, {0}, {7}, {0}, {7}>>
       [] p = "country" -> <<{0}, {0}, {5}, {0}, {7}, {0}, {5}, {0}>>
       [] p = "hiphop" -> <<{0}, {}, {0}, {7}, {0}, {}, {0}, {7}>>
       [] p \in {"trap", "dubstep"} -> <<{0}, {}, {-12}, {}, {0}, {}, {-12}, {}>>
       [] p = "dnb" -> <<{0}, {}, {7}, {}, {0}, {}, {7}, {}>>
       [] p = "ska" -> <<{}, {0}, {}, {0}, {}, {0}, {}, {0}>>
       [] OTHER -> <<{0}, {0}, {0}, {0}, {0}, {0}, {0}, {0}>>]

\* C24: with the bass enabled, the pitch played at a step is the root pitch
\* minus 12 plus the semitones of the pattern at step mod 8 (nothing is
\* played at a rest of the pattern), and a pattern identifier that is not
\* known plays the root minus 12 at every step.
C24_BassPitch ==
  (call.op = "bass" /\ ret.done /\ call.bassEnabled) =>
     LET off == IF call.pattern \in BassPatternIds
                THEN BassTable[call.pattern][(call.stepIdx % 8) + 1] ELSE {0}
     IN  IF off = {} THEN ret.val = <<>>
         ELSE /\ Len(ret.val) = 1
              /\ ret.val[1].kind = "bass"
              /\ off = {ret.val[1].midi - (call.rootMidi - 12)}

\* step 10 of the walking pattern over the C at 48: step 2 of the bar, four
\* semitones above the root an octave down
W_C24 ==
  /\ call.op = "bass" /\ ret.done /\ call.bassEnabled
  /\ call.pattern = "walking" /\ call.rootMidi = 48 /\ call.stepIdx = 10
  /\ ret.val = <<Event("bass", -1, 40)>>

\* C25: while the sequence is flagged playing with its clock armed, currentBar
\* is the bar index of the armed clock and equals seqBarIdxRef; while no
\* sequence is flagged playing (idle, or a single chord playing) it is -1.
C25_CurrentBar ==
  /\ (isPlayingSequence /\ seqTimerRef # NoTimer) =>
        /\ seqTimerRef \in DOMAIN timers
        /\ currentBar = timers[seqTimerRef].bar
        /\ currentBar = seqBarIdxRef
  /\ ~isPlayingSequence => currentBar = -1

\* the second bar of the sequence is playing, three steps into the bar
W_C25 ==
  /\ isPlayingSequence /\ seqTimerRef \in DOMAIN timers
  /\ timers[seqTimerRef].bar = 1 /\ currentBar = 1
  /\ seqStepIdxRef = 3

\* the sequence had played into its second bar when a single-chord start that
\* was still suspended took over
W_C25_Single ==
  /\ isPlayingSingle /\ singleTimerRef # NoTimer
  /\ seqBarIdxRef = 1 /\ currentBar = -1

\* C26: once a stop handler has run and no start command is issued after it,
\* every further step leaves the controller idle: a start command that was
\* suspended in its audio initialisation when the stop ran arms no clock.
C26_StopCancelsPendingStart ==
  [][h.stoppedAt # -1 =>
       /\ singleTimerRef' = NoTimer /\ seqTimerRef' = NoTimer
       /\ timers' = EmptyTimers
       /\ ~isPlayingSingle' /\ ~isPlayingSequence']_vars

\* C27: playSequenceBar is never called with a bar index outside the sequence
\* it looks the bar up in, whether it is called by the start command, by the
\* end of a bar, by the loop wrap or by the tempo/pattern restart effect.
C27_ValidBarIndex == ~h.err

\* C28: under fair ticking and with no stop command, playback whose loop
\* option is off ends by itself unless the option is switched on again: the
\* single chord and the sequence each leave the playing state.
C28_LoopOffEnds ==
  /\ (isPlayingSingle /\ singleTimerRef # NoTimer /\ ~loopSingle)
        ~> (~isPlayingSingle \/ loopSingle)
  /\ (isPlayingSequence /\ seqTimerRef # NoTimer /\ ~loopSequence)
        ~> (~isPlayingSequence \/ loopSequence)

\* C29: in every state between handler executions the playing flag of each
\* mode agrees with its timer handle: isPlayingSingle holds exactly when
\* singleTimerRef is armed, isPlayingSequence exactly when seqTimerRef is.
C29_FlagsAgreeWithHandles ==
  /\ isPlayingSingle <=> singleTimerRef # NoTimer
  /\ isPlayingSequence <=> seqTimerRef # NoTimer

\* the step counters between ticks: within 0..8, within 0..7 while the clock
\* of the mode is armed, and the steps ticked in the bar in progress are
\* 0..counter-1 in increasing order; a bar that ran to its end ticked 0..7
C30_State ==
  /\ singleStepIdxRef \in 0..8 /\ seqStepIdxRef \in 0..8
  /\ singleTimerRef # NoTimer =>
        /\ singleStepIdxRef \in 0..7
        /\ h.steps = UpTo(singleStepIdxRef)
  /\ seqTimerRef # NoTimer =>
        /\ seqStepIdxRef \in 0..7
        /\ h.steps = UpTo(seqStepIdxRef)
  /\ h.done = "single" => (h.steps = UpTo(8) /\ singleStepIdxRef = 8)
  /\ h.done = "seq" => (h.steps = UpTo(8) /\ seqStepIdxRef = 8)

\* a tick processes the step the counter of its mode points at
C30_Tick ==
  TickStep =>
    /\ singleTimerRef # NoTimer => h'.steps = Append(h.steps, singleStepIdxRef) \/ h'.steps = <<>>
    /\ seqTimerRef # NoTimer => h'.steps = Append(h.steps, seqStepIdxRef) \/ h'.steps = <<>>

\* a tempo or pattern change with no clock armed leaves the counters and the
\* handles as they are
C30_IdleChange ==
  ( /\ bpm' # bpm \/ patternId' # patternId
    /\ singleTimerRef = NoTimer /\ seqTimerRef = NoTimer )
  => /\ singleStepIdxRef' = singleStepIdxRef /\ seqStepIdxRef' = seqStepIdxRef
     /\ singleTimerRef' = NoTimer /\ seqTimerRef' = NoTimer
     /\ timers' = timers
     /\ isPlayingSingle' = isPlayingSingle /\ isPlayingSequence' = isPlayingSequence

\* C30: each step counter stays within 0..8 and within 0..7 while its clock
\* is armed; the ticks of a bar process steps 0,1,...,7 in increasing order,
\* each once; a tempo/pattern change while idle changes no counter and arms
\* no clock.
C30_StepCounters ==
  C30_State /\ [][C30_State' /\ C30_Tick /\ C30_IdleChange]_vars

\* idle after a single-chord bar that ran steps 0..7 to its end at the initial
\* tempo, with the tempo changed after it
W_C30 ==
  /\ Idle /\ h.done = "single" /\ h.clean
  /\ h.steps = UpTo(8) /\ singleStepIdxRef = 8
  /\ h.pat = patternId /\ bpm # 92

====
